---- MODULE Spec2Model ----
(***************************************************************************)
(* Runtime controls of buildfunctions (runtime_controls.py): the `run`     *)
(* orchestrator and its gates, modelled as cooperative asyncio tasks.      *)
(*                                                                         *)
(* Scheduling.  asyncio runs one task at a time until that task really     *)
(* suspends.  `running` names the task that is inside a synchronous        *)
(* segment; every other task, the clock and the caller's abort are held    *)
(* back until the segment ends at a suspension point: the executor race,   *)
(* a backoff or poll sleep with a positive delay, the return of `run`,     *)
(* or - for a plugged state adapter whose operations suspend               *)
(* (env.asyncState) - a state-store get or set.                            *)
(*                                                                         *)
(* Time.  The clock `now` counts units of 1000 ms.  A timer or sleep that  *)
(* is due fires before the clock advances further.                         *)
(*                                                                         *)
(* Strings.  User-supplied strings (run key, idempotency key, resource     *)
(* key, tool name) are sequences of one-character strings so that strip()  *)
(* and pattern matching are computed; state keys are real strings built by *)
(* concatenation as in the f-strings of the source.  SHA-256 is modelled   *)
(* as an injective wrapper "sha256(...)".                                  *)
(***************************************************************************)
EXTENDS Integers, Sequences, FiniteSets, TLC

--------------------------------------------------------------------------
(* Bounds of the model *)

MaxTime ==
  3

MaxRuns ==
  3

Procs ==
  {"t1", "t2"}

NoProc ==
  "none"

NoInt ==
  -1

NoneStr ==
  <<"None">>

--------------------------------------------------------------------------
(* Strings *)

RECURSIVE Flat(_)
Flat(s) ==
  IF s = <<>> THEN "" ELSE Head(s) \o Flat(Tail(s))

RECURSIVE lstrip(_)
lstrip(s) ==
  IF s # <<>> /\ Head(s) = " " THEN lstrip(Tail(s)) ELSE s

RECURSIVE rstrip(_)
rstrip(s) ==
  IF s # <<>> /\ s[Len(s)] = " " THEN rstrip(SubSeq(s, 1, Len(s) - 1)) ELSE s

strip(s) ==
  rstrip(lstrip(s))

(* Values as _stable_stringify tells them apart: an atom (None, str, int, *)
(* float, bool) with its json.dumps text, a list, a dict with its keys in *)
(* insertion order, and any other object (bytes, set, datetime, ...) with *)
(* the text str() gives it                                                *)
Atom(text) ==
  [kind |-> "atom", text |-> text]

Other(text) ==
  [kind |-> "other", text |-> text]

List(items) ==
  [kind |-> "list", items |-> items]

Dict(keys, vals) ==
  [kind |-> "dict", keys |-> keys, vals |-> vals]

Str(s) ==
  Atom("\"" \o Flat(s) \o "\"")

NoArgs ==
  Atom("null")

RECURSIVE join(_, _)
join(parts, sep) ==
  IF parts = <<>> THEN ""
  ELSE IF Len(parts) = 1 THEN parts[1]
  ELSE parts[1] \o sep \o join(Tail(parts), sep)

(* the order of str on the keys in use *)
KeyOrder ==
  <<"a", "b", "c">>

key_rank(k) ==
  CHOOSE i \in DOMAIN KeyOrder : KeyOrder[i] = k

RECURSIVE sorted_keys(_)
sorted_keys(S) ==
  IF S = {} THEN <<>>
  ELSE LET m == CHOOSE k \in S : \A j \in S : key_rank(k) <= key_rank(j)
       IN <<m>> \o sorted_keys(S \ {m})

value_at(d, key) ==
  d.vals[CHOOSE i \in DOMAIN d.keys : d.keys[i] = key]

(* _stable_stringify returns (TRUE) or raises TypeError (FALSE) *)
RECURSIVE stringifies(_)
stringifies(value) ==
  CASE value.kind = "atom" -> TRUE
    [] value.kind = "list" -> \A i \in DOMAIN value.items : stringifies(value.items[i])
    [] value.kind = "dict" -> \A i \in DOMAIN value.vals : stringifies(value.vals[i])
    [] OTHER -> FALSE

RECURSIVE stable_stringify(_)
stable_stringify(value) ==
  CASE value.kind = "atom" -> value.text
    [] value.kind = "list" ->
         "[" \o join([i \in DOMAIN value.items |-> stable_stringify(value.items[i])], ",")
             \o "]"
    [] value.kind = "dict" ->
         LET keys == sorted_keys({value.keys[i] : i \in DOMAIN value.keys})
         IN "{" \o join([i \in DOMAIN keys |->
                           "\"" \o keys[i] \o "\":"
                              \o stable_stringify(value_at(value, keys[i]))], ",")
                \o "}"
    [] OTHER -> "TypeError"

(* str(value): a dict is printed in insertion order *)
RECURSIVE py_str(_)
py_str(value) ==
  CASE value.kind = "list" ->
         "[" \o join([i \in DOMAIN value.items |-> py_str(value.items[i])], ", ") \o "]"
    [] value.kind = "dict" ->
         "{" \o join([i \in DOMAIN value.keys |->
                        "'" \o value.keys[i] \o "': " \o py_str(value.vals[i])], ", ")
             \o "}"
    [] OTHER -> value.text

digest_stable(value) ==
  "sha256(" \o (IF stringifies(value) THEN stable_stringify(value) ELSE py_str(value))
            \o ")"

DefaultRunKey ==
  <<"d", "e", "f", "a", "u", "l", "t">>

normalize_run_key(run_key) ==
  IF run_key = NoneStr \/ run_key = <<>>
  THEN DefaultRunKey
  ELSE IF strip(run_key) # <<>> THEN strip(run_key) ELSE DefaultRunKey

--------------------------------------------------------------------------
(* State stores: the in-memory dict of _create_state_store.  A store is a *)
(* function whose domain is the set of keys present.                      *)

EmptyStore ==
  [k \in {} |-> <<>>]

store_get(store, key) ==
  IF key \in DOMAIN store THEN <<store[key]>> ELSE <<>>

store_set(store, key, value) ==
  [k \in (DOMAIN store) \cup {key} |-> IF k = key THEN value ELSE store[k]]

store_delete(store, key) ==
  [k \in (DOMAIN store) \ {key} |-> store[k]]

store_keys(store) ==
  DOMAIN store

--------------------------------------------------------------------------
(* Failures.  A failure carries message, code and the two status        *)
(* attributes status_code / statusCode that _make_failure sets together. *)

make_failure(message, code, status_code) ==
  [message |-> message, code |-> code,
   status_code |-> status_code, statusCode |-> status_code]

failure_status(error) ==
  IF error.status_code # NoInt THEN error.status_code ELSE error.statusCode

TransientMessages ==
  {"temporary", "timeout"}

AbortedRaw ==
  [hasCode |-> FALSE, code |-> "", message |-> "aborted",
   status_code |-> NoInt, statusCode |-> NoInt, status |-> NoInt]

has_failure_fields(error) ==
  error.hasCode

extract_status_code(error) ==
  IF has_failure_fields(error)
  THEN error.status_code
  ELSE IF error.statusCode # NoInt THEN error.statusCode
       ELSE error.status

is_retryable_status(status_code) ==
  status_code # NoInt /\ (status_code = 408 \/ status_code = 429 \/ status_code >= 500)

normalize_failure(error, didTimeout, cancelledByCaller, statusCode) ==
  IF has_failure_fields(error)
  THEN [message |-> error.message, code |-> error.code,
        status_code |-> error.status_code, statusCode |-> error.statusCode]
  ELSE IF cancelledByCaller
       THEN make_failure("Tool call cancelled by caller", "NETWORK_ERROR", statusCode)
       ELSE IF didTimeout
            THEN make_failure("Tool call timed out", "NETWORK_ERROR", statusCode)
            ELSE make_failure(error.message,
                              IF error.message \in TransientMessages
                              THEN "NETWORK_ERROR" ELSE "UNKNOWN_ERROR",
                              statusCode)

FatalCodes ==
  {"UNAUTHORIZED", "INVALID_REQUEST", "VALIDATION_ERROR", "NOT_FOUND", "SIZE_LIMIT_EXCEEDED"}

is_fatal_buildfunctions_code(code) ==
  code \in FatalCodes

should_retry_failure_ignores_fatal(error, status_code, cancelled_by_caller) ==
  IF cancelled_by_caller THEN FALSE
  ELSE IF is_retryable_status(IF status_code # NoInt THEN status_code ELSE error.status_code)
       THEN TRUE
       ELSE error.code \in {"NETWORK_ERROR"} \cup FatalCodes

should_retry_failure(error, status_code, cancelled_by_caller) ==
  IF cancelled_by_caller THEN FALSE
  ELSE IF is_retryable_status(IF status_code # NoInt THEN status_code ELSE error.status_code)
       THEN TRUE
       ELSE IF is_fatal_buildfunctions_code(error.code) THEN FALSE
            ELSE error.code = "NETWORK_ERROR"

RECURSIVE pow(_, _)
pow(b, e) ==
  IF e <= 0 THEN 1 ELSE b * pow(b, e - 1)

min2(a, b) ==
  IF a <= b THEN a ELSE b

max2(a, b) ==
  IF a >= b THEN a ELSE b

(* jitterRatio is 0 in every modelled configuration *)
compute_backoff_delay(retry, attempt) ==
  min2(retry.maxDelayMs,
       max2(0, retry.initialDelayMs * pow(retry.backoffFactor, max2(0, attempt - 1))))

--------------------------------------------------------------------------
(* State keys *)

build_fingerprint(tool_name, args) ==
  Flat(tool_name) \o ":" \o digest_stable(args)

build_outcome_hash(ok, statusCode, code, message, data) ==
  "sha256({ok:" \o (IF ok THEN "true" ELSE "false")
     \o ",statusCode:" \o (IF statusCode = NoInt THEN "null" ELSE ToString(statusCode))
     \o ",code:" \o code \o ",message:" \o message \o ",data:" \o data \o "})"

get_loop_state_key(tenantKey, fingerprint) ==
  tenantKey \o ":loop:" \o fingerprint

get_run_budget_key(tenantKey, run_key) ==
  tenantKey \o ":budget:" \o Flat(run_key)

get_lock_state_key(tenantKey, resource_key) ==
  tenantKey \o ":lock:" \o digest_stable(Str(resource_key))

NoKey ==
  ""

get_idempotency_state_key(tenantKey, idempotency, context) ==
  IF ~idempotency.enabled THEN NoKey
  ELSE IF context.idempotencyKey = NoneStr THEN NoKey
  ELSE IF strip(context.idempotencyKey) = <<>> THEN NoKey
  ELSE tenantKey \o ":idempotency:"
         \o (IF idempotency.namespaceByRunKey
             THEN Flat(normalize_run_key(context.runKey)) ELSE "global")
         \o ":" \o Flat(context.toolName) \o ":"
         \o digest_stable(Str(strip(context.idempotencyKey)))

normalize_destination(destination) ==
  IF destination = NoneStr \/ destination = <<>> THEN NoneStr
  ELSE IF Len(destination) >= 2 /\ destination[1] = "https://"
       THEN <<destination[2]>>
       ELSE destination

get_circuit_key_raw(tenantKey, tool_name, destination) ==
  tenantKey \o ":" \o Flat(tool_name) \o ":"
    \o (IF destination = NoneStr THEN "default" ELSE Flat(destination))

get_circuit_key(tenantKey, tool_name, destination) ==
  tenantKey \o ":" \o Flat(tool_name) \o ":"
    \o (IF normalize_destination(destination) = NoneStr
        THEN "default" ELSE Flat(normalize_destination(destination)))

--------------------------------------------------------------------------
(* Idempotency cache *)

NoFailure ==
  make_failure("", "", NoInt)

read_idempotency_record_strict(store, state_key, now_ms) ==
  IF state_key = NoKey \/ store_get(store, state_key) = <<>>
  THEN [store |-> store, record |-> <<>>]
  ELSE IF store[state_key].expiresAt # NoInt /\ store[state_key].expiresAt < now_ms
       THEN [store |-> store_delete(store, state_key), record |-> <<>>]
       ELSE [store |-> store, record |-> <<store[state_key]>>]

read_idempotency_record(store, state_key, now_ms) ==
  IF state_key = NoKey \/ store_get(store, state_key) = <<>>
  THEN [store |-> store, record |-> <<>>]
  ELSE IF store[state_key].expiresAt # NoInt /\ store[state_key].expiresAt <= now_ms
       THEN [store |-> store_delete(store, state_key), record |-> <<>>]
       ELSE [store |-> store, record |-> <<store[state_key]>>]

store_idempotency_success(idempotency, store, state_key, now_ms, result) ==
  IF state_key = NoKey THEN store
  ELSE store_set(store, state_key,
         [storedAt |-> now_ms,
          expiresAt |-> IF idempotency.ttlMs # NoInt THEN now_ms + idempotency.ttlMs ELSE NoInt,
          ok |-> TRUE, result |-> result,
          error |-> [message |-> "", code |-> "", statusCode |-> NoInt]])

store_idempotency_error_always(idempotency, store, state_key, now_ms, error) ==
  IF state_key = NoKey THEN store
  ELSE store_set(store, state_key,
         [storedAt |-> now_ms,
          expiresAt |-> IF idempotency.ttlMs # NoInt THEN now_ms + idempotency.ttlMs ELSE NoInt,
          ok |-> FALSE, result |-> "",
          error |-> [message |-> error.message, code |-> error.code,
                     statusCode |-> failure_status(error)]])

store_idempotency_error(idempotency, store, state_key, now_ms, error) ==
  IF ~idempotency.includeErrors THEN store
  ELSE IF state_key = NoKey THEN store
  ELSE store_set(store, state_key,
         [storedAt |-> now_ms,
          expiresAt |-> IF idempotency.ttlMs # NoInt THEN now_ms + idempotency.ttlMs ELSE NoInt,
          ok |-> FALSE, result |-> "",
          error |-> [message |-> error.message, code |-> error.code,
                     statusCode |-> failure_status(error)]])

replayed_failure(record) ==
  make_failure(record.error.message, record.error.code, record.error.statusCode)

--------------------------------------------------------------------------
(* Lock manager *)

NoLock ==
  [key |-> NoKey, owner |-> ""]

(* the 1000 ms added to the timeout, in clock units *)
LeaseMarginMs ==
  1

minimum_lease_ms(concurrency, timeoutMs) ==
  IF timeoutMs > 0 THEN timeoutMs + LeaseMarginMs ELSE concurrency.leaseMs

lease_ms_for(concurrency, minimum) ==
  max2(concurrency.leaseMs, minimum)

try_acquire(store, key, owner, now_ms, lease_ms) ==
  IF store_get(store, key) = <<>> \/ store[key].expiresAt <= now_ms
  THEN [store |-> store_set(store, key, [owner |-> owner, expiresAt |-> now_ms + lease_ms]),
        acquired |-> TRUE]
  ELSE [store |-> store, acquired |-> FALSE]

release_resource_lock_kept(store, lock_ref) ==
  store

release_resource_lock_any_owner(store, lock_ref) ==
  IF lock_ref = NoLock THEN store
  ELSE store_delete(store, lock_ref.key)

release_resource_lock(store, lock_ref) ==
  IF lock_ref = NoLock THEN store
  ELSE IF store_get(store, lock_ref.key) = <<>> THEN store
  ELSE IF store[lock_ref.key].owner # lock_ref.owner THEN store
  ELSE store_delete(store, lock_ref.key)

--------------------------------------------------------------------------
(* Budget counter *)

budget_count(store, budget_key) ==
  IF store_get(store, budget_key) = <<>> THEN 0 ELSE store[budget_key].count

budget_exceeded_above(max_tool_calls, count) ==
  count > max_tool_calls

budget_exceeded(max_tool_calls, count) ==
  count >= max_tool_calls

--------------------------------------------------------------------------
(* Loop breaker *)

NewLoopState(now_ms) ==
  [streak |-> 0, lastSeenAt |-> now_ms, lastOutcomeHash |-> "",
   quarantineUntil |-> NoInt, stopUntil |-> NoInt]

(* "" passes, otherwise the message of the failure raised *)
enforce_loop_quarantine_first(store, key, now_ms, loop_config) ==
  IF ~loop_config.enabled \/ store_get(store, key) = <<>>
  THEN [store |-> store, blocked |-> ""]
  ELSE IF store[key].quarantineUntil # NoInt /\ store[key].quarantineUntil > now_ms
       THEN [store |-> store,
             blocked |-> "Loop breaker quarantined repeated tool pattern"]
       ELSE IF store[key].stopUntil # NoInt /\ store[key].stopUntil > now_ms
            THEN [store |-> store,
                  blocked |-> "Loop breaker blocked repeated no-progress tool pattern"]
            ELSE [store |-> store_set(store, key, [store[key] EXCEPT !.lastSeenAt = now_ms]),
                  blocked |-> ""]

enforce_loop_before_call(store, key, now_ms, loop_config) ==
  IF ~loop_config.enabled \/ store_get(store, key) = <<>>
  THEN [store |-> store, blocked |-> ""]
  ELSE IF store[key].stopUntil # NoInt /\ store[key].stopUntil > now_ms
       THEN [store |-> store,
             blocked |-> "Loop breaker blocked repeated no-progress tool pattern"]
       ELSE IF store[key].quarantineUntil # NoInt /\ store[key].quarantineUntil > now_ms
            THEN [store |-> store,
                  blocked |-> "Loop breaker quarantined repeated tool pattern"]
            ELSE [store |-> store_set(store, key, [store[key] EXCEPT !.lastSeenAt = now_ms]),
                  blocked |-> ""]

(* the key that the scan of prune_loop_states settles on: one with the *)
(* smallest lastSeenAt                                                  *)
oldest_loop_key(store) ==
  CHOOSE k \in store_keys(store) :
    \A j \in store_keys(store) : store[k].lastSeenAt <= store[j].lastSeenAt

prune_loop_states(store, loop_config) ==
  IF Cardinality(store_keys(store)) <= loop_config.maxFingerprints
  THEN store
  ELSE store_delete(store, oldest_loop_key(store))

loop_streaked_keeps_timers(state, outcomeHash, now_ms) ==
  IF state.lastOutcomeHash = outcomeHash
  THEN [state EXCEPT !.streak = state.streak + 1, !.lastSeenAt = now_ms]
  ELSE [state EXCEPT !.streak = 1, !.lastOutcomeHash = outcomeHash,
                     !.lastSeenAt = now_ms]

loop_streaked(state, outcomeHash, now_ms) ==
  IF state.lastOutcomeHash = outcomeHash
  THEN [state EXCEPT !.streak = state.streak + 1, !.lastSeenAt = now_ms]
  ELSE [state EXCEPT !.streak = 1, !.lastOutcomeHash = outcomeHash,
                     !.quarantineUntil = NoInt, !.stopUntil = NoInt,
                     !.lastSeenAt = now_ms]

record_loop_outcome(store, key, outcomeHash, now_ms, loop_config) ==
  IF ~loop_config.enabled THEN [store |-> store, events |-> <<>>]
  ELSE LET prior == IF store_get(store, key) = <<>> THEN NewLoopState(now_ms) ELSE store[key]
           state == loop_streaked(prior, outcomeHash, now_ms)
           prevStop == IF state.stopUntil = NoInt THEN 0 ELSE state.stopUntil
           prevQuar == IF state.quarantineUntil = NoInt THEN 0 ELSE state.quarantineUntil
           final ==
             IF state.streak >= loop_config.stopThreshold
             THEN [state EXCEPT !.stopUntil = now_ms + loop_config.stopCooldownMs]
             ELSE IF state.streak >= loop_config.quarantineThreshold
                  THEN [state EXCEPT !.quarantineUntil = now_ms + loop_config.quarantineMs]
                  ELSE state
           events ==
             IF state.streak >= loop_config.stopThreshold
             THEN (IF prevStop <= now_ms THEN <<"loop_stop">> ELSE <<>>)
             ELSE IF state.streak >= loop_config.quarantineThreshold
                  THEN (IF prevQuar <= now_ms THEN <<"loop_quarantine">> ELSE <<>>)
                  ELSE IF state.streak >= loop_config.warningThreshold
                       THEN <<"loop_warning">> ELSE <<>>
       IN [store |-> prune_loop_states(store_set(store, key, final), loop_config),
           events |-> events]

--------------------------------------------------------------------------
(* Circuit breaker *)

enforce_circuit_inclusive(store, key, now_ms, circuit_config) ==
  circuit_config.enabled
    /\ store_get(store, key) # <<>>
    /\ store[key].openUntil # NoInt
    /\ store[key].openUntil >= now_ms

enforce_circuit_before_call(store, key, now_ms, circuit_config) ==
  circuit_config.enabled
    /\ store_get(store, key) # <<>>
    /\ store[key].openUntil # NoInt
    /\ store[key].openUntil > now_ms

record_circuit_call_unwindowed(store, key, failed, now_ms, circuit_config) ==
  IF ~circuit_config.enabled THEN [store |-> store, events |-> <<>>]
  ELSE LET prior == IF store_get(store, key) = <<>>
                    THEN [samples |-> <<>>, openUntil |-> NoInt] ELSE store[key]
           samples == Append(prior.samples, [timestamp |-> now_ms, failed |-> failed])
           failure_count == Len(SelectSeq(samples, LAMBDA x : x.failed))
           opens == Len(samples) >= circuit_config.minRequests
                      /\ failure_count * 100 >= circuit_config.failureRatePct * Len(samples)
           previous == IF prior.openUntil = NoInt THEN 0 ELSE prior.openUntil
       IN [store |-> store_set(store, key,
                      [samples |-> samples,
                       openUntil |-> IF opens THEN now_ms + circuit_config.cooldownMs
                                     ELSE prior.openUntil]),
           events |-> IF opens /\ previous <= now_ms THEN <<"circuit_open">> ELSE <<>>]

record_circuit_call(store, key, failed, now_ms, circuit_config) ==
  IF ~circuit_config.enabled THEN [store |-> store, events |-> <<>>]
  ELSE LET prior == IF store_get(store, key) = <<>>
                    THEN [samples |-> <<>>, openUntil |-> NoInt] ELSE store[key]
           samples == SelectSeq(Append(prior.samples, [timestamp |-> now_ms, failed |-> failed]),
                                LAMBDA x : x.timestamp >= now_ms - circuit_config.windowMs)
           failure_count == Len(SelectSeq(samples, LAMBDA x : x.failed))
           opens == Len(samples) >= circuit_config.minRequests
                      /\ failure_count * 100 >= circuit_config.failureRatePct * Len(samples)
           previous == IF prior.openUntil = NoInt THEN 0 ELSE prior.openUntil
       IN [store |-> store_set(store, key,
                      [samples |-> samples,
                       openUntil |-> IF opens THEN now_ms + circuit_config.cooldownMs
                                     ELSE prior.openUntil]),
           events |-> IF opens /\ previous <= now_ms THEN <<"circuit_open">> ELSE <<>>]

--------------------------------------------------------------------------
(* Policy evaluator *)

starts_with(value, prefix) ==
  Len(prefix) <= Len(value) /\ SubSeq(value, 1, Len(prefix)) = prefix

ends_with(value, suffix) ==
  Len(suffix) <= Len(value)
    /\ SubSeq(value, Len(value) - Len(suffix) + 1, Len(value)) = suffix

match_pattern(value, pattern) ==
  IF pattern = <<"*">> THEN TRUE
  ELSE IF pattern # <<>> /\ pattern[Len(pattern)] = "*"
       THEN starts_with(value, SubSeq(pattern, 1, Len(pattern) - 1))
       ELSE value = pattern

host_matches(pattern, host) ==
  IF pattern = <<"*">> THEN TRUE
  ELSE IF starts_with(pattern, <<"*", ".">>)
       THEN ends_with(host, Tail(pattern))
       ELSE host = pattern

get_tool_pattern_specificity(pattern) ==
  IF pattern = <<"*">> THEN 0
  ELSE IF pattern # <<>> /\ pattern[Len(pattern)] = "*" THEN 1 ELSE 2

get_destination_pattern_specificity(pattern) ==
  IF pattern = <<"*">> THEN 0
  ELSE IF starts_with(pattern, <<"*", ".">>) THEN 1 ELSE 2

get_policy_action_strictness(action) ==
  IF action = "deny" THEN 2 ELSE IF action = "require_approval" THEN 1 ELSE 0

SetMax(S) ==
  CHOOSE x \in S : \A y \in S : y <= x

NoRank ==
  [matched |-> FALSE, toolSpecificity |-> -1, destinationSpecificity |-> -1,
   actionPrefixSpecificity |-> -1, strictness |-> 0, index |-> 0]

(* rule.tools, rule.destinations, rule.actionPrefixes are sets of patterns; *)
(* the empty set is an absent constraint                                   *)
get_tool_rule_match_rank(rule, context, index) ==
  LET toolScores == {get_tool_pattern_specificity(q) :
                       q \in {q \in rule.tools : match_pattern(context.toolName, q)}}
      destination == normalize_destination(context.destination)
      destScores == {get_destination_pattern_specificity(q) :
                       q \in {q \in rule.destinations :
                                destination # NoneStr /\ host_matches(q, destination)}}
      lengths == {Len(q) :
                    q \in {q \in rule.actionPrefixes :
                             context.action # NoneStr /\ starts_with(context.action, q)}}
  IN IF rule.tools # {} /\ toolScores = {} THEN NoRank
     ELSE IF rule.destinations # {} /\ destScores = {} THEN NoRank
     ELSE IF rule.actionPrefixes # {} /\ lengths = {} THEN NoRank
     ELSE [matched |-> TRUE,
           toolSpecificity |-> IF rule.tools = {} THEN -1 ELSE SetMax(toolScores),
           destinationSpecificity |-> IF rule.destinations = {} THEN -1 ELSE SetMax(destScores),
           actionPrefixSpecificity |-> IF rule.actionPrefixes = {} THEN -1 ELSE SetMax(lengths),
           strictness |-> get_policy_action_strictness(rule.action),
           index |-> index]

compare_rule_ranks_strict_first(a, b) ==
  IF a.strictness # b.strictness THEN a.strictness - b.strictness
  ELSE IF a.toolSpecificity # b.toolSpecificity THEN a.toolSpecificity - b.toolSpecificity
  ELSE IF a.destinationSpecificity # b.destinationSpecificity
       THEN a.destinationSpecificity - b.destinationSpecificity
  ELSE IF a.actionPrefixSpecificity # b.actionPrefixSpecificity
       THEN a.actionPrefixSpecificity - b.actionPrefixSpecificity
  ELSE b.index - a.index

compare_rule_ranks(a, b) ==
  IF a.toolSpecificity # b.toolSpecificity THEN a.toolSpecificity - b.toolSpecificity
  ELSE IF a.destinationSpecificity # b.destinationSpecificity
       THEN a.destinationSpecificity - b.destinationSpecificity
  ELSE IF a.actionPrefixSpecificity # b.actionPrefixSpecificity
       THEN a.actionPrefixSpecificity - b.actionPrefixSpecificity
  ELSE IF a.strictness # b.strictness THEN a.strictness - b.strictness
  ELSE b.index - a.index

(* index of the applied rule, 0 when no rule matches *)
RECURSIVE best_rule_from(_, _, _, _)
best_rule_from(rules, context, i, best) ==
  IF i > Len(rules) THEN best
  ELSE LET rank == get_tool_rule_match_rank(rules[i], context, i)
       IN IF ~rank.matched THEN best_rule_from(rules, context, i + 1, best)
          ELSE IF best = 0
                    \/ compare_rule_ranks(rank,
                         get_tool_rule_match_rank(rules[best], context, best)) > 0
               THEN best_rule_from(rules, context, i + 1, i)
               ELSE best_rule_from(rules, context, i + 1, best)

find_matching_tool_rule(rules, context) ==
  best_rule_from(rules, context, 1, 0)

--------------------------------------------------------------------------
(* State *)

VARIABLES
  cfg,               \* the resolved configuration of the controller
  env,               \* the calls, executor results and resets the callers issue
  now,               \* _now_ms(), in units of 1000 ms
  running,           \* the task inside a synchronous segment, or NoProc
  runsStarted,       \* number of run() calls made so far
  budgetStore,
  loopStore,
  circuitStore,
  lockStore,
  idempotencyStore,
  exitStore,         \* the state store of the agent-logic exit condition
  task,              \* per task: position in run() and its locals
  audit              \* history: runs admitted by the budget gate, last reset(),
                     \* calls passed by the exit condition

vars ==
  <<cfg, env, now, running, runsStarted, budgetStore, loopStore, circuitStore,
    lockStore, idempotencyStore, exitStore, task, audit>>

stores ==
  <<budgetStore, loopStore, circuitStore, lockStore, idempotencyStore>>

NoContext ==
  [toolName |-> NoneStr, runKey |-> NoneStr, destination |-> NoneStr,
   action |-> NoneStr, args |-> NoArgs, idempotencyKey |-> NoneStr,
   resourceKey |-> NoneStr, hasSignal |-> FALSE, preAborted |-> FALSE,
   controller |-> "first"]

NoOutcome ==
  [kind |-> "none", data |-> "", error |-> NoFailure]

IdleTask ==
  [pc |-> "idle", ctx |-> NoContext, aborted |-> FALSE, attempt |-> 0,
   lockRef |-> NoLock, owner |-> "", deadline |-> NoInt, timedOut |-> FALSE,
   fnDone |-> <<>>, sleepUntil |-> NoInt, startedAt |-> NoInt, count |-> 0,
   raw |-> AbortedRaw, phase |-> "execute", result |-> "",
   outcome |-> NoOutcome, replayed |-> FALSE, expiredDrop |-> FALSE,
   execs |-> 0, events |-> <<>>, snap |-> <<>>, abortedAt |-> <<>>,
   releasedForeign |-> FALSE, seq |-> 0, loopRead |-> <<>>, loopHash |-> "",
   oldest_key |-> NoKey, exitRead |-> <<>>, cancelled |-> 0,
   rule |-> 0, asked |-> FALSE, escaped |-> FALSE, fanned |-> 0,
   backlog |-> <<>>, sinkFailures |-> <<>>]

Step(p) ==
  running \in {NoProc, p}

retries_emitted(t) ==
  Cardinality({i \in DOMAIN t.events : t.events[i] = "retry"})

on_event_call_unguarded(on_event) ==
  CASE on_event = "none" -> "skipped"
    [] on_event = "raises" -> "raised"
    [] on_event = "coroutine" -> "task"
    [] OTHER -> "returned"

(* the on_event call of emit_event: a callback that raises is swallowed, *)
(* a coroutine it returns is handed to a task nobody awaits              *)
on_event_call(on_event) ==
  CASE on_event = "none" -> "skipped"
    [] on_event = "raises" -> "swallowed"
    [] on_event = "coroutine" -> "task"
    [] OTHER -> "returned"

emit_event_dropped(t, type) ==
  [t EXCEPT !.escaped = @ \/ on_event_call(cfg.onEvent) = "raised"]

(* t.escaped tells that an exception of the callback left emit_event; the *)
(* sinks get one task per (event, sink), see pending_fanout               *)
emit_event(t, type) ==
  [t EXCEPT !.events = Append(@, type),
            !.escaped = @ \/ on_event_call(cfg.onEvent) = "raised"]

(* the _fanout tasks created by emit_event that have not run yet, oldest  *)
(* first: those left over from the caller's earlier runs (t.backlog) and  *)
(* those of the current run from the t.fanned-th on                       *)
pending_fanout(t) ==
  LET S == Len(cfg.eventSinks)
      made == Len(t.events) * S
  IN t.backlog \o
       [k \in 1..(made - t.fanned) |->
          [event |-> t.events[((t.fanned + k - 1) \div S) + 1],
           sinkIndex |-> (t.fanned + k - 1) % S]]

(* a new run of the same caller: the tasks and the hook's record stay *)
NextRun(t) ==
  [IdleTask EXCEPT !.backlog = IF cfg.eventSinks = <<>> THEN <<>> ELSE pending_fanout(t),
                   !.sinkFailures = t.sinkFailures]

Raised(t, failure) ==
  [t EXCEPT !.outcome = [kind |-> "err", data |-> "", error |-> failure]]

Returned(t, value) ==
  [t EXCEPT !.outcome = [kind |-> "ok", data |-> value, error |-> NoFailure]]

(* run() has returned or raised: its locals are gone, what the caller and *)
(* the event callback observed is kept                                    *)
Finished(t) ==
  [IdleTask EXCEPT !.pc = "done", !.ctx = t.ctx, !.aborted = t.aborted,
                   !.lockRef = t.lockRef, !.owner = t.owner, !.outcome = t.outcome,
                   !.replayed = t.replayed, !.expiredDrop = t.expiredDrop,
                   !.execs = t.execs, !.events = t.events, !.snap = t.snap,
                   !.abortedAt = t.abortedAt, !.releasedForeign = t.releasedForeign,
                   !.seq = t.seq, !.rule = t.rule, !.asked = t.asked,
                   !.escaped = t.escaped, !.fanned = t.fanned, !.backlog = t.backlog,
                   !.sinkFailures = t.sinkFailures, !.cancelled = t.cancelled]

(* _resolve_effective_call_config with no per-tool / per-destination override *)
resolve_effective_call_config(resolved, context) ==
  [timeoutMs |-> resolved.timeoutMs, retry |-> resolved.retry,
   loopBreaker |-> resolved.loopBreaker, circuitBreaker |-> resolved.circuitBreaker]

(* over a state adapter the `await loop_store.get` of record_loop_outcome *)
(* suspends the run; the built-in store answers without suspending       *)
loop_get_awaited(loop_config) ==
  env.asyncState /\ loop_config.enabled

(* the order of the gates in run() between the before-call verifier and *)
(* the lock acquisition                                                 *)
next_gate_budget_first(gate) ==
  CASE gate = "before" -> "budget"
    [] gate = "budget" -> "replay"
    [] gate = "replay" -> "loop_pre"
    [] gate = "loop_pre" -> "acquire"

next_gate_loop_first(gate) ==
  CASE gate = "before" -> "replay"
    [] gate = "replay" -> "loop_pre"
    [] gate = "loop_pre" -> "budget"
    [] gate = "budget" -> "acquire"

next_gate(gate) ==
  CASE gate = "before" -> "replay"
    [] gate = "replay" -> "budget"
    [] gate = "budget" -> "loop_pre"
    [] gate = "loop_pre" -> "acquire"

Decisions(verifier) ==
  IF verifier = {} THEN {TRUE} ELSE verifier

(* the tenant key of the controller a call is made through: cfg is the   *)
(* resolved configuration of the first controller, and a second one that *)
(* differs from it by its tenant key only is created over the same state *)
(* stores                                                                *)
TenantKeyOf(context) ==
  IF context.controller = "second" THEN env.secondTenantKey ELSE cfg.tenantKey

BudgetKeyOf(context) ==
  get_run_budget_key(TenantKeyOf(context), normalize_run_key(context.runKey))

LoopKeyOf(context) ==
  get_loop_state_key(TenantKeyOf(context), build_fingerprint(context.toolName, context.args))

CircuitKeyOf(context) ==
  get_circuit_key(TenantKeyOf(context), context.toolName, context.destination)

IdemKeyOf(context) ==
  get_idempotency_state_key(TenantKeyOf(context), cfg.idempotency, context)

HasResourceKey(context) ==
  cfg.concurrency.enabled /\ context.resourceKey # NoneStr
    /\ strip(context.resourceKey) # <<>>

LockKeyOf(context) ==
  get_lock_state_key(TenantKeyOf(context), strip(context.resourceKey))

--------------------------------------------------------------------------
(* run(): entry, policy gate, before-call verifier *)

Begin(p, c) ==
  /\ running = NoProc
  /\ p \in env.tasks
  /\ task[p].pc \in {"idle", "done"}
  /\ runsStarted < MaxRuns
  /\ runsStarted' = runsStarted + 1
  /\ IF c.toolName = NoneStr \/ c.toolName = <<>>
     THEN /\ task' = [task EXCEPT ![p] =
                 Finished(Raised([NextRun(task[p]) EXCEPT !.ctx = c],
                   make_failure("run() requires context.toolName", "VALIDATION_ERROR", NoInt)))]
          /\ running' = NoProc
     ELSE /\ task' = [task EXCEPT ![p] =
                 [NextRun(task[p]) EXCEPT !.pc = "policy", !.ctx = c,
                                  !.seq = runsStarted + 1,
                                  !.aborted = c.hasSignal /\ c.preAborted,
                                  !.abortedAt = IF c.hasSignal /\ c.preAborted
                                                THEN <<[execs |-> 0, retries |-> 0,
                                                        attempt |-> 0]>>
                                                ELSE <<>>,
                                  !.owner = ToString(now) \o ":" \o p \o "-"
                                               \o ToString(runsStarted + 1),
                                  !.snap = <<[budget |-> budgetStore, loop |-> loopStore,
                                              circuit |-> circuitStore, lock |-> lockStore,
                                              idempotency |-> idempotencyStore]>>]]
          /\ running' = p
  /\ UNCHANGED <<cfg, env, exitStore, audit, now, stores>>

policy_mode_never_dry_run(policy) ==
  FALSE

policy_mode_is_dry_run(policy) ==
  policy.mode = "dryRun"

(* t.rule is the index of matching_rule (0: none, or the gate is off), *)
(* t.asked tells that approval_handler has been called                 *)
enforce_policy(p) ==
  LET t0 == task[p]
      policy == cfg.policy
      idx == find_matching_tool_rule(policy.rules, t0.ctx)
      passes == ~policy.enabled \/ policy.rules = <<>> \/ idx = 0
                  \/ policy.rules[idx].action = "allow"
      dry == policy_mode_is_dry_run(policy)
      t == [t0 EXCEPT !.rule = IF ~policy.enabled \/ policy.rules = <<>> THEN 0 ELSE idx,
                      !.asked = ~passes /\ ~dry /\ policy.rules[idx].action # "deny"
                                  /\ policy.approvalHandler # {}]
  IN /\ Step(p)
     /\ t0.pc = "policy"
     /\ \E approved \in (IF passes \/ dry
                            \/ policy.rules[idx].action = "deny"
                            \/ policy.approvalHandler = {}
                         THEN {FALSE} ELSE policy.approvalHandler) :
          IF passes
          THEN /\ task' = [task EXCEPT ![p] = [t EXCEPT !.pc = "before"]]
               /\ running' = p
          ELSE IF dry
          THEN /\ task' = [task EXCEPT ![p] =
                      [emit_event(t, "policy_dry_run") EXCEPT !.pc = "before"]]
               /\ running' = p
          ELSE IF policy.rules[idx].action = "deny"
          THEN /\ task' = [task EXCEPT ![p] =
                      Finished(Raised(emit_event(t, "policy_denied"),
                        make_failure("Policy denied tool call", "UNAUTHORIZED", 403)))]
               /\ running' = NoProc
          ELSE IF policy.approvalHandler = {}
          THEN /\ task' = [task EXCEPT ![p] =
                      Finished(Raised(emit_event(t, "policy_approval_required"),
                        make_failure("Policy requires approval but no approvalHandler is configured",
                                     "UNAUTHORIZED", 403)))]
               /\ running' = NoProc
          ELSE IF ~approved
          THEN /\ task' = [task EXCEPT ![p] =
                      Finished(Raised(
                        emit_event(emit_event(t, "policy_approval_required"), "policy_denied"),
                        make_failure("Tool call approval denied by policy handler",
                                     "UNAUTHORIZED", 403)))]
               /\ running' = NoProc
          ELSE /\ task' = [task EXCEPT ![p] =
                      [emit_event(emit_event(t, "policy_approval_required"), "policy_approved")
                         EXCEPT !.pc = "before"]]
               /\ running' = p
     /\ UNCHANGED <<cfg, env, exitStore, audit, now, runsStarted, stores>>

(* _matches_terminal_action of the agent-logic safety layer *)
matches_terminal_action(context, config) ==
  /\ context.action # NoneStr
  /\ \E i \in DOMAIN config.terminalActions :
       /\ match_pattern(context.toolName, config.terminalActions[i].toolNamePattern)
       /\ starts_with(context.action, config.terminalActions[i].actionPrefix)

get_exit_state(store, state_key) ==
  IF store_get(store, state_key) = <<>>
  THEN [steps |-> 0, terminalReached |-> FALSE]
  ELSE store_get(store, state_key)[1]

safety_before_call_one_more(context, store) ==
  LET config == cfg.exitCondition
      state_key == "agent_logic_exit:" \o Flat(normalize_run_key(context.runKey))
      state == get_exit_state(store, state_key)
      next_steps == state.steps + 1
      terminal_reached == state.terminalReached \/ matches_terminal_action(context, config)
      written == store_set(store, state_key,
                   [steps |-> next_steps, terminalReached |-> terminal_reached])
  IN IF ~config.enabled
     THEN [allow |-> TRUE, reason |-> "", store |-> store]
     ELSE IF state.terminalReached /\ config.blockAfterTerminal
     THEN [allow |-> FALSE, store |-> store,
           reason |-> "Run already reached terminal action; further tool calls are blocked"]
     ELSE IF ~terminal_reached /\ next_steps > config.maxStepsPerRun + 1
     THEN [allow |-> FALSE, store |-> written,
           reason |-> "Exit condition not reached within "
                        \o ToString(config.maxStepsPerRun) \o " tool calls"]
     ELSE [allow |-> TRUE, reason |-> "", store |-> written]

(* safety_before_call of apply_agent_logic_safety, exit condition: the    *)
(* decision and the exit-state store it leaves (no injection guard); the  *)
(* built-in store's get and set do not suspend                            *)
safety_before_call(context, store) ==
  LET config == cfg.exitCondition
      state_key == "agent_logic_exit:" \o Flat(normalize_run_key(context.runKey))
      state == get_exit_state(store, state_key)
      next_steps == state.steps + 1
      terminal_reached == state.terminalReached \/ matches_terminal_action(context, config)
      written == store_set(store, state_key,
                   [steps |-> next_steps, terminalReached |-> terminal_reached])
  IN IF ~config.enabled
     THEN [allow |-> TRUE, reason |-> "", store |-> store]
     ELSE IF state.terminalReached /\ config.blockAfterTerminal
     THEN [allow |-> FALSE, store |-> store,
           reason |-> "Run already reached terminal action; further tool calls are blocked"]
     ELSE IF ~terminal_reached /\ next_steps > config.maxStepsPerRun
     THEN [allow |-> FALSE, store |-> written,
           reason |-> "Exit condition not reached within "
                        \o ToString(config.maxStepsPerRun) \o " tool calls"]
     ELSE [allow |-> TRUE, reason |-> "", store |-> written]

(* history: per run key, the calls the exit condition let pass before a   *)
(* terminal call came, and whether a terminal call has come               *)
passed_of(run_key) ==
  IF run_key \in DOMAIN audit.passed
  THEN audit.passed[run_key]
  ELSE [count |-> 0, terminalSeen |-> FALSE]

ExitKeyOf(context) ==
  "agent_logic_exit:" \o Flat(normalize_run_key(context.runKey))

(* the merged before-call verifier: the configured one first, then        *)
(* safety_before_call; over a state adapter the `await get` of the exit   *)
(* state suspends the run                                                 *)
enforce_before_verifier(p) ==
  LET t == task[p]
      safety == safety_before_call(t.ctx, exitStore)
      run_key == normalize_run_key(t.ctx.runKey)
      terminal == matches_terminal_action(t.ctx, cfg.exitCondition)
  IN /\ Step(p)
     /\ t.pc = "before"
     /\ \E allow \in Decisions(cfg.verifiers.beforeCall) :
          IF ~allow
          THEN /\ task' = [task EXCEPT ![p] =
                      Finished(Raised(emit_event(t, "verifier_rejected"),
                        make_failure("Verifier rejected tool call", "INVALID_REQUEST", NoInt)))]
               /\ running' = NoProc
               /\ UNCHANGED <<exitStore, audit>>
          ELSE IF cfg.exitCondition.enabled /\ env.asyncState
          THEN /\ task' = [task EXCEPT ![p] =
                      [t EXCEPT !.pc = "before_set",
                                !.exitRead = store_get(exitStore, ExitKeyOf(t.ctx))]]
               /\ running' = NoProc
               /\ UNCHANGED <<exitStore, audit>>
          ELSE /\ exitStore' = safety.store
               /\ audit' = IF ~cfg.exitCondition.enabled THEN audit
                           ELSE [audit EXCEPT !.passed = store_set(@, run_key,
                                   [count |-> passed_of(run_key).count
                                        + (IF safety.allow /\ ~terminal
                                                /\ ~passed_of(run_key).terminalSeen
                                           THEN 1 ELSE 0),
                                    terminalSeen |-> passed_of(run_key).terminalSeen
                                                       \/ terminal])]
               /\ IF safety.allow
                  THEN /\ task' = [task EXCEPT ![p].pc = next_gate("before")]
                       /\ running' = p
                  ELSE /\ task' = [task EXCEPT ![p] =
                              Finished(Raised(emit_event(t, "verifier_rejected"),
                                make_failure("Verifier rejected tool call: " \o safety.reason,
                                             "INVALID_REQUEST", NoInt)))]
                       /\ running' = NoProc
     /\ UNCHANGED <<cfg, env, now, runsStarted, stores>>

(* safety_before_call after `await exit_state_store.get` over a state    *)
(* adapter: the decision and the state written are computed from the     *)
(* state that was read                                                   *)
safety_before_call_set(p) ==
  LET t == task[p]
      seen == IF t.exitRead = <<>> THEN store_delete(exitStore, ExitKeyOf(t.ctx))
              ELSE store_set(exitStore, ExitKeyOf(t.ctx), t.exitRead[1])
      safety == safety_before_call(t.ctx, seen)
      run_key == normalize_run_key(t.ctx.runKey)
      terminal == matches_terminal_action(t.ctx, cfg.exitCondition)
  IN /\ Step(p)
     /\ t.pc = "before_set"
     /\ exitStore' = IF safety.store = seen THEN exitStore
                     ELSE store_set(exitStore, ExitKeyOf(t.ctx), safety.store[ExitKeyOf(t.ctx)])
     /\ audit' = [audit EXCEPT !.passed = store_set(@, run_key,
                    [count |-> passed_of(run_key).count
                         + (IF safety.allow /\ ~terminal /\ ~passed_of(run_key).terminalSeen
                            THEN 1 ELSE 0),
                     terminalSeen |-> passed_of(run_key).terminalSeen \/ terminal])]
     /\ IF safety.allow
        THEN /\ task' = [task EXCEPT ![p] =
                    [t EXCEPT !.pc = next_gate("before"), !.exitRead = <<>>]]
             /\ running' = p
        ELSE /\ task' = [task EXCEPT ![p] =
                    Finished(Raised(emit_event(t, "verifier_rejected"),
                      make_failure("Verifier rejected tool call: " \o safety.reason,
                                   "INVALID_REQUEST", NoInt)))]
             /\ running' = NoProc
     /\ UNCHANGED <<cfg, env, now, runsStarted, stores>>

--------------------------------------------------------------------------
(* run(): idempotency replay, budget, loop breaker pre-check *)

try_replay_idempotency(p) ==
  LET t == task[p]
      r == read_idempotency_record(idempotencyStore, IdemKeyOf(t.ctx), now)
  IN /\ Step(p)
     /\ t.pc = "replay"
     /\ idempotencyStore' = r.store
     /\ IF r.record = <<>>
        THEN /\ task' = [task EXCEPT ![p] =
                    [t EXCEPT !.pc = next_gate("replay"),
                              !.snap = IF t.ctx.hasSignal /\ t.ctx.preAborted
                                       THEN @ ELSE <<>>,
                              !.expiredDrop = (r.store # idempotencyStore)]]
             /\ running' = p
        ELSE /\ task' = [task EXCEPT ![p] =
                    Finished([(IF r.record[1].ok
                               THEN Returned(emit_event(t, "idempotency_replay"),
                                             r.record[1].result)
                               ELSE Raised(emit_event(t, "idempotency_replay"),
                                           replayed_failure(r.record[1])))
                              EXCEPT !.replayed = TRUE])]
             /\ running' = NoProc
     /\ UNCHANGED <<cfg, env, exitStore, audit, now, runsStarted, budgetStore, loopStore, circuitStore, lockStore>>

(* enforce_run_budget up to and including `await budget_store.get` *)
enforce_run_budget_get(p) ==
  LET t == task[p]
  IN /\ Step(p)
     /\ t.pc = "budget"
     /\ IF cfg.maxToolCalls = NoInt
        THEN /\ task' = [task EXCEPT ![p].pc = next_gate("budget")]
             /\ running' = p
        ELSE /\ task' = [task EXCEPT ![p] =
                    [t EXCEPT !.pc = "budget_set",
                              !.count = budget_count(budgetStore, BudgetKeyOf(t.ctx))]]
             /\ running' = IF env.asyncState THEN NoProc ELSE p
     /\ UNCHANGED <<cfg, env, exitStore, audit, now, runsStarted, stores>>

(* enforce_run_budget after the get: the check and `await budget_store.set` *)
enforce_run_budget_set(p) ==
  LET t == task[p]
  IN /\ Step(p)
     /\ t.pc = "budget_set"
     /\ IF budget_exceeded(cfg.maxToolCalls, t.count)
        THEN /\ task' = [task EXCEPT ![p] =
                    Finished(Raised(emit_event(t, "budget_stop"),
                      make_failure("Tool-call budget exceeded for run", "INVALID_REQUEST", NoInt)))]
             /\ running' = NoProc
             /\ UNCHANGED <<budgetStore, audit>>
        ELSE /\ budgetStore' = store_set(budgetStore, BudgetKeyOf(t.ctx), [count |-> t.count + 1])
             /\ task' = [task EXCEPT ![p].pc = next_gate("budget")]
             /\ running' = IF env.asyncState THEN NoProc ELSE p
             /\ audit' = [audit EXCEPT !.admitted =
                            store_set(@, BudgetKeyOf(t.ctx),
                                      1 + (IF BudgetKeyOf(t.ctx) \in DOMAIN @
                                           THEN @[BudgetKeyOf(t.ctx)] ELSE 0))]
     /\ UNCHANGED <<cfg, env, exitStore, now, runsStarted, loopStore, circuitStore, lockStore,
                    idempotencyStore>>

loop_before_call(p) ==
  LET t == task[p]
      eff == resolve_effective_call_config(cfg, t.ctx)
      r == enforce_loop_before_call(loopStore, LoopKeyOf(t.ctx), now, eff.loopBreaker)
  IN /\ Step(p)
     /\ t.pc = "loop_pre"
     /\ loopStore' = r.store
     /\ IF r.blocked # ""
        THEN /\ task' = [task EXCEPT ![p] =
                    Finished(Raised(t, make_failure(r.blocked, "INVALID_REQUEST", NoInt)))]
             /\ running' = NoProc
        ELSE /\ task' = [task EXCEPT ![p].pc = next_gate("loop_pre")]
             /\ running' = p
     /\ UNCHANGED <<cfg, env, exitStore, audit, now, runsStarted, budgetStore, circuitStore, lockStore,
                    idempotencyStore>>

--------------------------------------------------------------------------
(* run(): lock acquisition *)

acquire_resource_lock(p) ==
  LET t == task[p]
      eff == resolve_effective_call_config(cfg, t.ctx)
      lease == lease_ms_for(cfg.concurrency, minimum_lease_ms(cfg.concurrency, eff.timeoutMs))
      r == try_acquire(lockStore, LockKeyOf(t.ctx), t.owner, now, lease)
  IN /\ Step(p)
     /\ t.pc = "acquire"
     /\ IF ~HasResourceKey(t.ctx)
        THEN /\ task' = [task EXCEPT ![p] = [t EXCEPT !.pc = "circuit", !.attempt = 1]]
             /\ running' = p
             /\ UNCHANGED lockStore
        ELSE IF r.acquired
        THEN /\ lockStore' = r.store
             /\ task' = [task EXCEPT ![p] =
                    [t EXCEPT !.pc = "circuit", !.attempt = 1,
                              !.lockRef = [key |-> LockKeyOf(t.ctx), owner |-> t.owner]]]
             /\ running' = p
        ELSE IF cfg.concurrency.waitMode = "reject"
        THEN /\ task' = [task EXCEPT ![p] =
                    Finished(Raised(emit_event(t, "concurrency_rejected"),
                      make_failure("Concurrency lock is already held for resource",
                                   "INVALID_REQUEST", NoInt)))]
             /\ running' = NoProc
             /\ UNCHANGED lockStore
        ELSE IF 0 >= cfg.concurrency.waitTimeoutMs
        THEN /\ task' = [task EXCEPT ![p] =
                    Finished(Raised(
                      emit_event(emit_event(t, "concurrency_wait"), "concurrency_rejected"),
                      make_failure("Concurrency lock wait timeout", "INVALID_REQUEST", NoInt)))]
             /\ running' = NoProc
             /\ UNCHANGED lockStore
        ELSE /\ task' = [task EXCEPT ![p] =
                    [emit_event(t, "concurrency_wait") EXCEPT !.pc = "lockwait",
                                                             !.startedAt = now]]
             /\ running' = NoProc
             /\ UNCHANGED lockStore
     /\ UNCHANGED <<cfg, env, exitStore, audit, now, runsStarted, budgetStore, loopStore, circuitStore,
                    idempotencyStore>>

(* one wake-up of the poll sleep in wait mode and the next pass of the loop *)
lock_wait_poll(p) ==
  LET t == task[p]
      eff == resolve_effective_call_config(cfg, t.ctx)
      lease == lease_ms_for(cfg.concurrency, minimum_lease_ms(cfg.concurrency, eff.timeoutMs))
      r == try_acquire(lockStore, LockKeyOf(t.ctx), t.owner, now, lease)
  IN /\ running = NoProc
     /\ t.pc = "lockwait"
     /\ IF t.aborted
        THEN /\ task' = [task EXCEPT ![p] =
                    Finished(Raised(t,
                      make_failure("Tool call cancelled by caller", "NETWORK_ERROR", NoInt)))]
             /\ running' = NoProc
             /\ UNCHANGED lockStore
        ELSE IF r.acquired
        THEN /\ lockStore' = r.store
             /\ task' = [task EXCEPT ![p] =
                    [t EXCEPT !.pc = "circuit", !.attempt = 1,
                              !.lockRef = [key |-> LockKeyOf(t.ctx), owner |-> t.owner]]]
             /\ running' = p
        ELSE IF now - t.startedAt >= cfg.concurrency.waitTimeoutMs
        THEN /\ task' = [task EXCEPT ![p] =
                    Finished(Raised(emit_event(t, "concurrency_rejected"),
                      make_failure("Concurrency lock wait timeout", "INVALID_REQUEST", NoInt)))]
             /\ running' = NoProc
             /\ UNCHANGED lockStore
        ELSE /\ UNCHANGED <<task, running, lockStore>>
     /\ UNCHANGED <<cfg, env, exitStore, audit, now, runsStarted, budgetStore, loopStore, circuitStore,
                    idempotencyStore>>

release_lock(p) ==
  LET t == task[p]
  IN /\ Step(p)
     /\ t.pc = "release"
     /\ lockStore' = release_resource_lock(lockStore, t.lockRef)
     /\ task' = [task EXCEPT ![p] =
            Finished([t EXCEPT !.releasedForeign =
                        /\ t.lockRef # NoLock
                        /\ t.lockRef.key \in DOMAIN lockStore
                        /\ lockStore[t.lockRef.key].owner # t.lockRef.owner])]
     /\ running' = NoProc
     /\ UNCHANGED <<cfg, env, exitStore, audit, now, runsStarted, budgetStore, loopStore, circuitStore,
                    idempotencyStore>>

--------------------------------------------------------------------------
(* run(): the attempt loop *)

(* start_attempt with the circuit checked once per run, before the first *)
(* attempt only                                                          *)
start_attempt_checked_once(p) ==
  LET t == task[p]
      eff == resolve_effective_call_config(cfg, t.ctx)
  IN /\ Step(p)
     /\ t.pc = "circuit"
     /\ IF /\ t.attempt = 1
           /\ enforce_circuit_before_call(circuitStore, CircuitKeyOf(t.ctx), now,
                                          eff.circuitBreaker)
        THEN /\ task' = [task EXCEPT ![p] =
                    [Raised(t, make_failure(
                       "Dependency temporarily unavailable (circuit breaker open)",
                       "NETWORK_ERROR", NoInt)) EXCEPT !.pc = "release"]]
             /\ running' = p
        ELSE IF t.aborted
        THEN /\ task' = [task EXCEPT ![p] =
                    [t EXCEPT !.pc = "on_error", !.raw = AbortedRaw, !.phase = "execute",
                              !.timedOut = FALSE, !.fnDone = <<>>]]
             /\ running' = p
        ELSE /\ task' = [task EXCEPT ![p] =
                    [t EXCEPT !.pc = "exec", !.execs = @ + 1, !.phase = "execute",
                              !.timedOut = FALSE, !.fnDone = <<>>,
                              !.deadline = IF eff.timeoutMs > 0 THEN now + eff.timeoutMs
                                           ELSE NoInt]]
             /\ running' = NoProc
     /\ UNCHANGED <<cfg, env, exitStore, audit, now, runsStarted, stores>>

(* top of one loop pass: circuit check, run signal, start of the race *)
start_attempt(p) ==
  LET t == task[p]
      eff == resolve_effective_call_config(cfg, t.ctx)
  IN /\ Step(p)
     /\ t.pc = "circuit"
     /\ IF enforce_circuit_before_call(circuitStore, CircuitKeyOf(t.ctx), now, eff.circuitBreaker)
        THEN /\ task' = [task EXCEPT ![p] =
                    [Raised(t, make_failure(
                       "Dependency temporarily unavailable (circuit breaker open)",
                       "NETWORK_ERROR", NoInt)) EXCEPT !.pc = "release"]]
             /\ running' = p
        ELSE IF t.aborted
        THEN /\ task' = [task EXCEPT ![p] =
                    [t EXCEPT !.pc = "on_error", !.raw = AbortedRaw, !.phase = "execute",
                              !.timedOut = FALSE, !.fnDone = <<>>]]
             /\ running' = p
        ELSE /\ task' = [task EXCEPT ![p] =
                    [t EXCEPT !.pc = "exec", !.execs = @ + 1, !.phase = "execute",
                              !.timedOut = FALSE, !.fnDone = <<>>,
                              !.deadline = IF eff.timeoutMs > 0 THEN now + eff.timeoutMs
                                           ELSE NoInt]]
             /\ running' = NoProc
     /\ UNCHANGED <<cfg, env, exitStore, audit, now, runsStarted, stores>>

(* the executor coroutine returns or raises *)
executor_completes(p, o) ==
  LET t == task[p]
  IN /\ running = NoProc
     /\ t.pc = "exec"
     /\ t.fnDone = <<>>
     /\ ~t.aborted /\ ~t.timedOut
     /\ task' = [task EXCEPT ![p].fnDone = <<o>>]
     /\ UNCHANGED <<cfg, env, exitStore, audit, now, running, runsStarted, stores>>

(* on_timeout of _create_run_signal *)
on_timeout(p) ==
  LET t == task[p]
  IN /\ running = NoProc
     /\ t.pc = "exec"
     /\ t.deadline # NoInt /\ now >= t.deadline
     /\ ~t.timedOut
     /\ task' = [task EXCEPT ![p].timedOut = TRUE]
     /\ UNCHANGED <<cfg, env, exitStore, audit, now, running, runsStarted, stores>>

(* the caller aborts the signal it passed in the context *)
caller_abort(p) ==
  LET t == task[p]
  IN /\ running = NoProc
     /\ t.pc \notin {"idle", "done"}
     /\ t.ctx.hasSignal
     /\ ~t.aborted
     /\ task' = [task EXCEPT ![p] = [t EXCEPT !.aborted = TRUE,
                                              !.abortedAt =
                                                <<[execs |-> t.execs,
                                                   retries |-> retries_emitted(t),
                                                   attempt |-> t.attempt]>>]]
     /\ UNCHANGED <<cfg, env, exitStore, audit, now, running, runsStarted, stores>>

(* _race_with_abort resumes from asyncio.wait: "aborted" if the abort    *)
(* task is among the done ones, the executor's outcome otherwise; when   *)
(* both the executor and the signal have fired either can be the case.   *)
(* An executor task that is not done is asked to cancel and is left      *)
(* behind: "aborted" is raised without awaiting it                       *)
race_with_abort(p) ==
  LET t == task[p]
  IN /\ running = NoProc
     /\ t.pc = "exec"
     /\ t.fnDone # <<>> \/ t.aborted \/ t.timedOut
     /\ \E abort_task_done \in
            IF t.fnDone = <<>> THEN {TRUE}
            ELSE IF t.aborted \/ t.timedOut THEN BOOLEAN ELSE {FALSE} :
          task' = [task EXCEPT ![p] =
            IF abort_task_done
            THEN [t EXCEPT !.pc = "on_error", !.raw = AbortedRaw,
                           !.cancelled = IF t.fnDone = <<>> THEN @ + 1 ELSE @]
            ELSE IF t.fnDone[1].ok
                 THEN [t EXCEPT !.pc = "on_success", !.result = t.fnDone[1].data]
                 ELSE [t EXCEPT !.pc = "on_error", !.raw = t.fnDone[1].raw]]
     /\ running' = p
     /\ UNCHANGED <<cfg, env, exitStore, audit, now, runsStarted, stores>>

(* the event loop resumes an executor task that was asked to cancel and *)
(* the executor's coroutine comes to its end: at its first resumption    *)
(* when the CancelledError propagates, later when the executor catches   *)
(* it, awaits in a finally block or shields its work                     *)
cancelled_executor_ends(p) ==
  /\ running = NoProc
  /\ task[p].cancelled > 0
  /\ task' = [task EXCEPT ![p].cancelled = @ - 1]
  /\ UNCHANGED <<cfg, env, exitStore, audit, now, running, runsStarted, stores>>

on_success(p) ==
  LET t == task[p]
      eff == resolve_effective_call_config(cfg, t.ctx)
      c == record_circuit_call(circuitStore, CircuitKeyOf(t.ctx), FALSE, now, eff.circuitBreaker)
      l == record_loop_outcome(loopStore, LoopKeyOf(t.ctx),
                               build_outcome_hash(TRUE, NoInt, "null", "null", t.result),
                               now, eff.loopBreaker)
      t1 == [t EXCEPT !.events = @ \o c.events]
  IN /\ Step(p)
     /\ t.pc = "on_success"
     /\ circuitStore' = c.store
     /\ \E allow \in Decisions(cfg.verifiers.afterSuccess) :
          IF allow /\ loop_get_awaited(eff.loopBreaker)
          THEN /\ idempotencyStore' = store_idempotency_success(cfg.idempotency,
                                        idempotencyStore, IdemKeyOf(t.ctx), now, t.result)
               /\ task' = [task EXCEPT ![p] =
                      [Returned(t1, t.result)
                         EXCEPT !.pc = "loop_record",
                                !.loopRead = store_get(loopStore, LoopKeyOf(t.ctx)),
                                !.loopHash = build_outcome_hash(TRUE, NoInt, "null", "null",
                                                                t.result)]]
               /\ running' = NoProc
               /\ UNCHANGED loopStore
          ELSE IF allow
          THEN /\ idempotencyStore' = store_idempotency_success(cfg.idempotency,
                                        idempotencyStore, IdemKeyOf(t.ctx), now, t.result)
               /\ loopStore' = l.store
               /\ task' = [task EXCEPT ![p] =
                      [Returned([t1 EXCEPT !.events = @ \o l.events], t.result)
                         EXCEPT !.pc = "release"]]
               /\ running' = p
          ELSE /\ task' = [task EXCEPT ![p] =
                      [emit_event(t1, "verifier_rejected")
                         EXCEPT !.pc = "on_error", !.phase = "after_success",
                                !.raw = [hasCode |-> TRUE, code |-> "INVALID_REQUEST",
                                         message |-> "Verifier rejected tool result",
                                         status_code |-> NoInt, statusCode |-> NoInt,
                                         status |-> NoInt]]]
               /\ running' = p
               /\ UNCHANGED <<idempotencyStore, loopStore>>
     /\ UNCHANGED <<cfg, env, exitStore, audit, now, runsStarted, budgetStore, lockStore>>

(* record_loop_outcome after `await loop_store.get` over a state adapter: *)
(* the streak, the timers and the events are computed from the state     *)
(* that was read, then written back; the error path goes on to store the *)
(* failure in the idempotency cache                                      *)
(* when the keys then exceed maxFingerprints, prune_loop_states scans the *)
(* states through the awaited adapter and is suspended before its delete *)
record_loop_outcome_set(p) ==
  LET t == task[p]
      eff == resolve_effective_call_config(cfg, t.ctx)
      seen == IF t.loopRead = <<>> THEN store_delete(loopStore, LoopKeyOf(t.ctx))
              ELSE store_set(loopStore, LoopKeyOf(t.ctx), t.loopRead[1])
      l == record_loop_outcome(seen, LoopKeyOf(t.ctx), t.loopHash, now,
             [eff.loopBreaker EXCEPT !.maxFingerprints = Cardinality(store_keys(seen)) + 1])
  IN /\ Step(p)
     /\ t.pc = "loop_record"
     /\ loopStore' = l.store
     /\ IF Cardinality(store_keys(l.store)) > eff.loopBreaker.maxFingerprints
        THEN /\ task' = [task EXCEPT ![p] =
                    [t EXCEPT !.pc = "loop_prune", !.events = @ \o l.events,
                              !.loopRead = <<>>, !.loopHash = "",
                              !.oldest_key = oldest_loop_key(l.store)]]
             /\ running' = NoProc
             /\ UNCHANGED idempotencyStore
        ELSE /\ idempotencyStore' =
                  IF t.outcome.kind = "err"
                  THEN store_idempotency_error(cfg.idempotency, idempotencyStore,
                                               IdemKeyOf(t.ctx), now, t.outcome.error)
                  ELSE idempotencyStore
             /\ task' = [task EXCEPT ![p] =
                    [t EXCEPT !.pc = "release", !.events = @ \o l.events,
                              !.loopRead = <<>>, !.loopHash = ""]]
             /\ running' = p
     /\ UNCHANGED <<cfg, env, exitStore, audit, now, runsStarted, budgetStore, circuitStore, lockStore>>

(* the `await loop_store.delete(oldest_key)` of prune_loop_states over a *)
(* state adapter, with the key chosen before the suspension; the error  *)
(* path goes on to store the failure in the idempotency cache           *)
prune_loop_states_delete(p) ==
  LET t == task[p]
  IN /\ Step(p)
     /\ t.pc = "loop_prune"
     /\ loopStore' = store_delete(loopStore, t.oldest_key)
     /\ idempotencyStore' =
          IF t.outcome.kind = "err"
          THEN store_idempotency_error(cfg.idempotency, idempotencyStore, IdemKeyOf(t.ctx),
                                       now, t.outcome.error)
          ELSE idempotencyStore
     /\ task' = [task EXCEPT ![p] = [t EXCEPT !.pc = "release", !.oldest_key = NoKey]]
     /\ running' = p
     /\ UNCHANGED <<cfg, env, exitStore, audit, now, runsStarted, budgetStore, circuitStore, lockStore>>

ClassifierResults ==
  IF cfg.retryClassifier = {}
  THEN {[kind |-> "absent", retryable |-> FALSE, delayMs |-> NoInt]}
  ELSE cfg.retryClassifier

resolve_retry_decision(defaultRetryable, result) ==
  IF result.kind = "bool" THEN [retryable |-> result.retryable, delayMs |-> NoInt]
  ELSE IF result.kind = "dict"
       THEN [retryable |-> result.retryable,
             delayMs |-> IF result.delayMs >= 0 THEN result.delayMs ELSE NoInt]
       ELSE [retryable |-> defaultRetryable, delayMs |-> NoInt]

can_retry_unbounded(attempt, maxAttempts, retry_decision) ==
  retry_decision.retryable

can_retry(attempt, maxAttempts, retry_decision) ==
  attempt < maxAttempts /\ retry_decision.retryable

on_error(p) ==
  LET t == task[p]
      eff == resolve_effective_call_config(cfg, t.ctx)
      status_code == extract_status_code(t.raw)
      cancelled_by_caller == t.aborted
      normalized0 == normalize_failure(t.raw, t.timedOut, cancelled_by_caller, status_code)
      c == IF t.phase = "execute"
           THEN record_circuit_call(circuitStore, CircuitKeyOf(t.ctx), TRUE, now,
                                    eff.circuitBreaker)
           ELSE [store |-> circuitStore, events |-> <<>>]
  IN /\ Step(p)
     /\ t.pc = "on_error"
     /\ circuitStore' = c.store
     /\ \E allow \in Decisions(cfg.verifiers.afterError), cr \in ClassifierResults :
          LET normalized == IF allow THEN normalized0
                            ELSE make_failure("Verifier rejected tool error",
                                              "INVALID_REQUEST", NoInt)
              t1 == [t EXCEPT !.events =
                       (IF allow THEN @ ELSE Append(@, "verifier_rejected")) \o c.events]
              normalized_status_code == IF status_code # NoInt THEN status_code
                                        ELSE failure_status(normalized)
              default_retryable ==
                t.attempt < eff.retry.maxAttempts
                  /\ should_retry_failure(normalized, normalized_status_code,
                                          cancelled_by_caller)
              retry_decision == resolve_retry_decision(default_retryable, cr)
              delay_ms == IF retry_decision.delayMs # NoInt THEN retry_decision.delayMs
                          ELSE compute_backoff_delay(eff.retry, t.attempt)
              l == record_loop_outcome(loopStore, LoopKeyOf(t.ctx),
                     build_outcome_hash(FALSE, normalized_status_code, normalized.code,
                                        normalized.message, "null"),
                     now, eff.loopBreaker)
              outcomeHash == build_outcome_hash(FALSE, normalized_status_code,
                                                normalized.code, normalized.message, "null")
          IN IF ~can_retry(t.attempt, eff.retry.maxAttempts, retry_decision)
                  /\ loop_get_awaited(eff.loopBreaker)
             THEN /\ task' = [task EXCEPT ![p] =
                         [Raised(t1, normalized)
                            EXCEPT !.pc = "loop_record",
                                   !.loopRead = store_get(loopStore, LoopKeyOf(t.ctx)),
                                   !.loopHash = outcomeHash]]
                  /\ running' = NoProc
                  /\ UNCHANGED <<loopStore, idempotencyStore>>
             ELSE IF ~can_retry(t.attempt, eff.retry.maxAttempts, retry_decision)
             THEN /\ loopStore' = l.store
                  /\ idempotencyStore' = store_idempotency_error(cfg.idempotency,
                                           idempotencyStore, IdemKeyOf(t.ctx), now, normalized)
                  /\ task' = [task EXCEPT ![p] =
                         [Raised([t1 EXCEPT !.events = @ \o l.events], normalized)
                            EXCEPT !.pc = "release"]]
                  /\ running' = p
             ELSE IF delay_ms <= 0
             THEN /\ task' = [task EXCEPT ![p] =
                         [emit_event(t1, "retry") EXCEPT !.pc = "circuit",
                                                         !.attempt = @ + 1]]
                  /\ running' = p
                  /\ UNCHANGED <<loopStore, idempotencyStore>>
             ELSE /\ task' = [task EXCEPT ![p] =
                         [emit_event(t1, "retry") EXCEPT !.pc = "backoff",
                                                         !.sleepUntil = now + delay_ms]]
                  /\ running' = NoProc
                  /\ UNCHANGED <<loopStore, idempotencyStore>>
     /\ UNCHANGED <<cfg, env, exitStore, audit, now, runsStarted, budgetStore, lockStore>>

(* _sleep_with_abort of the backoff resumes *)
backoff_wake(p) ==
  LET t == task[p]
  IN /\ running = NoProc
     /\ t.pc = "backoff"
     /\ t.aborted \/ now >= t.sleepUntil
     /\ task' = [task EXCEPT ![p] =
            IF t.aborted
            THEN [Raised(t, make_failure("Tool call cancelled by caller", "NETWORK_ERROR", NoInt))
                    EXCEPT !.pc = "release"]
            ELSE [t EXCEPT !.pc = "circuit", !.attempt = @ + 1]]
     /\ running' = p
     /\ UNCHANGED <<cfg, env, exitStore, audit, now, runsStarted, stores>>

--------------------------------------------------------------------------
(* reset(); the clock *)

reset_budget_all(store, tenantKey, run_key) ==
  EmptyStore

reset_budget(store, tenantKey, run_key) ==
  store_delete(store, get_run_budget_key(tenantKey, normalize_run_key(run_key)))

reset(run_key) ==
  /\ running = NoProc
  /\ budgetStore' = reset_budget(budgetStore, cfg.tenantKey, run_key)
  /\ audit' = [audit EXCEPT !.admitted = reset_budget(audit.admitted, cfg.tenantKey, run_key),
                            !.lastReset = run_key]
  /\ UNCHANGED <<cfg, env, exitStore, now, running, runsStarted, loopStore, circuitStore, lockStore,
                 idempotencyStore, task>>

Due(t) ==
  \/ t.pc = "exec" /\ (t.fnDone # <<>> \/ t.aborted \/ t.timedOut)
  \/ t.pc = "exec" /\ t.deadline # NoInt /\ now >= t.deadline
  \/ t.pc = "backoff" /\ (t.aborted \/ now >= t.sleepUntil)

(* the clock is read only to compare it with a stored deadline: it is *)
(* advanced while some deadline lies ahead                             *)
DeadlineAhead ==
  \/ \E k \in DOMAIN lockStore : lockStore[k].expiresAt > now
  \/ \E k \in DOMAIN idempotencyStore : idempotencyStore[k].expiresAt > now
  \/ \E k \in DOMAIN loopStore :
        loopStore[k].quarantineUntil > now \/ loopStore[k].stopUntil > now
  \/ \E k \in DOMAIN circuitStore :
        \/ circuitStore[k].openUntil > now
        \/ \E i \in 1..Len(circuitStore[k].samples) :
             circuitStore[k].samples[i].timestamp + cfg.circuitBreaker.windowMs >= now
  \/ \E p \in Procs :
        \/ task[p].pc = "exec" /\ task[p].deadline > now
        \/ task[p].pc = "backoff" /\ task[p].sleepUntil > now
        \/ task[p].pc = "lockwait"
              /\ task[p].startedAt + cfg.concurrency.waitTimeoutMs > now

Tick ==
  /\ running = NoProc
  /\ now < MaxTime
  /\ DeadlineAhead
  /\ \A p \in Procs : ~Due(task[p])
  /\ now' = now + 1
  /\ UNCHANGED <<cfg, env, exitStore, audit, running, runsStarted, stores, task>>

Next ==
  \/ \E p \in Procs, c \in env.calls : Begin(p, c)
  \/ \E p \in Procs : enforce_policy(p)
  \/ \E p \in Procs : enforce_before_verifier(p)
  \/ \E p \in Procs : try_replay_idempotency(p)
  \/ \E p \in Procs : enforce_run_budget_get(p)
  \/ \E p \in Procs : enforce_run_budget_set(p)
  \/ \E p \in Procs : loop_before_call(p)
  \/ \E p \in Procs : acquire_resource_lock(p)
  \/ \E p \in Procs : lock_wait_poll(p)
  \/ \E p \in Procs : start_attempt(p)
  \/ \E p \in Procs, o \in env.outcomes : executor_completes(p, o)
  \/ \E p \in Procs : on_timeout(p)
  \/ \E p \in Procs : caller_abort(p)
  \/ \E p \in Procs : race_with_abort(p)
  \/ \E p \in Procs : on_success(p)
  \/ \E p \in Procs : on_error(p)
  \/ \E p \in Procs : backoff_wake(p)
  \/ \E p \in Procs : release_lock(p)
  \/ \E k \in env.resets : reset(k)
  \/ Tick

--------------------------------------------------------------------------
(* Configurations and callers *)

Call(runKey, idempotencyKey, resourceKey, hasSignal) ==
  [toolName |-> <<"t">>, runKey |-> runKey, destination |-> NoneStr,
   action |-> NoneStr, args |-> NoArgs, idempotencyKey |-> idempotencyKey,
   resourceKey |-> resourceKey, hasSignal |-> hasSignal, preAborted |-> FALSE,
   controller |-> "first"]

Ok(data) ==
  [ok |-> TRUE, data |-> data, raw |-> AbortedRaw]

Fails(hasCode, code, message, status) ==
  [ok |-> FALSE, data |-> "",
   raw |-> [hasCode |-> hasCode, code |-> code, message |-> message,
            status_code |-> status, statusCode |-> status, status |-> NoInt]]

BaseCfg ==
  [tenantKey |-> "acme",
   timeoutMs |-> 0,
   maxToolCalls |-> NoInt,
   retry |-> [maxAttempts |-> 1, initialDelayMs |-> 0, maxDelayMs |-> 0, backoffFactor |-> 1],
   retryClassifier |-> {},
   onEvent |-> "none", eventSinks |-> <<>>, onEventSinkFailure |-> "none",
   intentAllowlist |-> <<>>,
   exitCondition |-> [enabled |-> FALSE, maxStepsPerRun |-> 30, blockAfterTerminal |-> TRUE,
                      terminalActions |-> <<>>],
   loopBreaker |-> [enabled |-> FALSE, warningThreshold |-> 5, quarantineThreshold |-> 8,
                    stopThreshold |-> 12, quarantineMs |-> 15, stopCooldownMs |-> 120,
                    maxFingerprints |-> 200],
   circuitBreaker |-> [enabled |-> FALSE, windowMs |-> 30, minRequests |-> 20,
                       failureRatePct |-> 60, cooldownMs |-> 60],
   policy |-> [enabled |-> TRUE, mode |-> "enforce", rules |-> <<>>, approvalHandler |-> {}],
   verifiers |-> [beforeCall |-> {}, afterSuccess |-> {}, afterError |-> {}],
   idempotency |-> [enabled |-> TRUE, ttlMs |-> NoInt, includeErrors |-> FALSE,
                    namespaceByRunKey |-> TRUE],
   concurrency |-> [enabled |-> FALSE, leaseMs |-> 30, waitMode |-> "reject",
                    waitTimeoutMs |-> 5, pollIntervalMs |-> 0]]

BaseEnv ==
  [name |-> "base", asyncState |-> FALSE, tasks |-> Procs,
   calls |-> {Call(NoneStr, NoneStr, NoneStr, FALSE)},
   outcomes |-> {Ok("a")},
   resets |-> {},
   secondTenantKey |-> "other",
   loopSeed |-> EmptyStore]

(* two tasks on one resource key: a lease of 1000 ms without a timeout, and *)
(* a lease of timeout + 1000 ms with two attempts, a backoff and a circuit  *)
(* that opens on the first failure                                          *)
LockScenarios ==
  {[cfg |-> [BaseCfg EXCEPT
               !.timeoutMs = k.tm,
               !.retry = [maxAttempts |-> k.att, initialDelayMs |-> 1, maxDelayMs |-> 1,
                          backoffFactor |-> 1],
               !.idempotency = [enabled |-> FALSE, ttlMs |-> NoInt, includeErrors |-> FALSE,
                                namespaceByRunKey |-> TRUE],
               !.circuitBreaker = [enabled |-> k.att > 1, windowMs |-> 1, minRequests |-> 1,
                                   failureRatePct |-> 50, cooldownMs |-> 2],
               !.concurrency = [enabled |-> TRUE, leaseMs |-> 1, waitMode |-> k.wm,
                                waitTimeoutMs |-> 2, pollIntervalMs |-> 0]],
     env |-> [BaseEnv EXCEPT
               !.name = "lock",
               !.calls = {Call(NoneStr, NoneStr, <<"r">>, k.sig),
                          Call(NoneStr, NoneStr, <<"r", " ">>, FALSE)},
               !.outcomes = {Ok("a"), Fails(TRUE, "NETWORK_ERROR", "temporary", 503)}]] :
     k \in {[tm |-> 0, att |-> 1, wm |-> "reject", sig |-> FALSE],
            [tm |-> 0, att |-> 1, wm |-> "wait", sig |-> TRUE],
            [tm |-> 1, att |-> 2, wm |-> "reject", sig |-> TRUE]}}

(* one caller repeating an idempotency key under a budget of two calls; *)
(* the last configuration also keeps loop-breaker and circuit state      *)
IdempotencyScenarios ==
  {[cfg |-> [BaseCfg EXCEPT
               !.maxToolCalls = 2,
               !.loopBreaker.enabled = k.br,
               !.circuitBreaker.enabled = k.br,
               !.verifiers = [beforeCall |-> {}, afterSuccess |-> {TRUE, FALSE},
                              afterError |-> {}],
               !.idempotency = [enabled |-> TRUE, ttlMs |-> k.ttl, includeErrors |-> k.ie,
                                namespaceByRunKey |-> TRUE]],
     env |-> [BaseEnv EXCEPT
               !.name = "idempotency",
               !.tasks = {"t1"},
               !.calls = IF k.br
                         THEN {Call(<<"x">>, <<"k">>, NoneStr, FALSE),
                               Call(<<"x">>, <<"j">>, NoneStr, FALSE)}
                         ELSE {Call(<<"x">>, <<"k">>, NoneStr, FALSE),
                               Call(<<"x">>, <<" ", "k">>, NoneStr, FALSE),
                               Call(<<"x">>, <<"j">>, NoneStr, FALSE),
                               Call(<<"x">>, <<" ">>, NoneStr, FALSE)},
               !.outcomes = IF k.br
                            THEN {Ok("a"), Fails(TRUE, "NOT_FOUND", "missing", 404)}
                            ELSE {Ok("a"), Ok("b"),
                                  Fails(TRUE, "NOT_FOUND", "missing", 404),
                                  Fails(FALSE, "", "boom", NoInt)}]] :
     k \in {[ttl |-> NoInt, ie |-> FALSE, br |-> FALSE],
            [ttl |-> 1, ie |-> TRUE, br |-> FALSE],
            [ttl |-> 1, ie |-> FALSE, br |-> FALSE],
            [ttl |-> NoInt, ie |-> TRUE, br |-> TRUE]}}

(* budgets of one and two calls over run keys that normalise to "default" *)
(* and "x"                                                                *)
BudgetScenarios ==
  {[cfg |-> [BaseCfg EXCEPT !.maxToolCalls = m],
    env |-> [BaseEnv EXCEPT
               !.name = "budget",
               !.calls = {Call(NoneStr, NoneStr, NoneStr, FALSE),
                          Call(<<" ">>, NoneStr, NoneStr, FALSE),
                          Call(<<"x">>, NoneStr, NoneStr, FALSE),
                          Call(<<" ", "x">>, NoneStr, NoneStr, FALSE)},
               !.resets = {<<" ">>, <<"x", " ">>}]] : m \in {1, 2}}

(* one caller that may cancel, under every kind of retry classifier result *)
CancelScenarios ==
  {[cfg |-> [BaseCfg EXCEPT
               !.timeoutMs = 1,
               !.retry = [maxAttempts |-> 3, initialDelayMs |-> d, maxDelayMs |-> d,
                          backoffFactor |-> 1],
               !.retryClassifier = rc],
     env |-> [BaseEnv EXCEPT
               !.name = "cancel",
               !.tasks = {"t1"},
               !.calls = {Call(NoneStr, NoneStr, NoneStr, TRUE),
                          [Call(NoneStr, NoneStr, NoneStr, TRUE) EXCEPT !.preAborted = TRUE]},
               !.outcomes = {Ok("a"), Fails(TRUE, "NETWORK_ERROR", "temporary", 503),
                             Fails(FALSE, "", "boom", NoInt)}]] :
     d \in {0, 1},
     rc \in {{}, {[kind |-> "bool", retryable |-> TRUE, delayMs |-> NoInt],
                  [kind |-> "invalid", retryable |-> FALSE, delayMs |-> NoInt]},
             {[kind |-> "dict", retryable |-> TRUE, delayMs |-> 0],
              [kind |-> "bool", retryable |-> FALSE, delayMs |-> NoInt]}}}

(* one caller under the default retry decision, three attempts without *)
(* delay, executors that fail with fatal and with transient failures   *)
RetryScenarios ==
  {[cfg |-> [BaseCfg EXCEPT
               !.retry = [maxAttempts |-> 3, initialDelayMs |-> 0, maxDelayMs |-> 0,
                          backoffFactor |-> 1],
               !.idempotency = [enabled |-> TRUE, ttlMs |-> NoInt, includeErrors |-> FALSE,
                                namespaceByRunKey |-> TRUE]],
    env |-> [BaseEnv EXCEPT
               !.name = "retry",
               !.tasks = {"t1"},
               !.calls = {Call(NoneStr, <<"k">>, NoneStr, FALSE)},
               !.outcomes = {Ok("a"),
                             Fails(TRUE, "NOT_FOUND", "missing", 503),
                             Fails(TRUE, "VALIDATION_ERROR", "bad input", 400),
                             Fails(TRUE, "NETWORK_ERROR", "unavailable", 503),
                             Fails(FALSE, "", "boom", NoInt)}]]}

(* one caller whose signal is already aborted on entry, under a budget, *)
(* a loop breaker, a circuit breaker and a resource lock                *)
PreAbortedScenarios ==
  {[cfg |-> [BaseCfg EXCEPT
               !.maxToolCalls = 2,
               !.loopBreaker.enabled = TRUE,
               !.circuitBreaker.enabled = TRUE,
               !.idempotency = [enabled |-> TRUE, ttlMs |-> NoInt, includeErrors |-> TRUE,
                                namespaceByRunKey |-> TRUE],
               !.concurrency.enabled = TRUE],
    env |-> [BaseEnv EXCEPT
               !.name = "preaborted",
               !.tasks = {"t1"},
               !.calls = {[Call(<<"x">>, <<"k">>, <<"r">>, TRUE)
                             EXCEPT !.preAborted = TRUE]}]]}

(* a circuit breaker over a window of 1000 ms that opens for 1000 ms once *)
(* two samples are in the window and half of them have failed; two        *)
(* attempts per run, 1000 ms apart; one task whose executor succeeds or   *)
(* fails, and two tasks whose executor fails                              *)
CircuitScenarios ==
  {[cfg |-> [BaseCfg EXCEPT
               !.retry = [maxAttempts |-> 2, initialDelayMs |-> 1, maxDelayMs |-> 1,
                          backoffFactor |-> 1],
               !.circuitBreaker = [enabled |-> TRUE, windowMs |-> 1, minRequests |-> 2,
                                   failureRatePct |-> 50, cooldownMs |-> 1]],
    env |-> [BaseEnv EXCEPT
               !.name = "circuit",
               !.tasks = k.tasks,
               !.outcomes = k.outcomes]] :
     k \in {[tasks |-> {"t1"},
             outcomes |-> {Ok("a"), Fails(TRUE, "NETWORK_ERROR", "unavailable", 503)}],
            [tasks |-> Procs,
             outcomes |-> {Fails(TRUE, "NETWORK_ERROR", "unavailable", 503)}]}}

(* one task calling one tool at a URL of host a, at the bare host a, at  *)
(* the bare host b and without destination, under a circuit breaker that *)
(* opens on the first failure; the calls to the bare host a run under    *)
(* the budget of run y, the others under the budget of run x             *)
DestinationScenarios ==
  {[cfg |-> [BaseCfg EXCEPT
               !.maxToolCalls = 3,
               !.circuitBreaker = [enabled |-> TRUE, windowMs |-> 1, minRequests |-> 1,
                                   failureRatePct |-> 100, cooldownMs |-> 1]],
    env |-> [BaseEnv EXCEPT
               !.name = "destination",
               !.tasks = {"t1"},
               !.calls = {[Call(IF d = <<"a">> THEN <<"y">> ELSE <<"x">>, NoneStr, NoneStr,
                                FALSE)
                             EXCEPT !.destination = d] :
                          d \in {<<"https://", "a", "/v1">>, <<"a">>, <<"b">>, NoneStr}},
               !.outcomes = {Fails(FALSE, "", "boom", NoInt)}]]}

(* two controllers over the same stores, with the tenant keys "a" and   *)
(* "a:budget" and a budget of one call per run: the first is called with *)
(* the run keys "x" and "budget:x", the second with the run key "x"      *)
TenantScenarios ==
  {[cfg |-> [BaseCfg EXCEPT !.tenantKey = "a", !.maxToolCalls = 1],
    env |-> [BaseEnv EXCEPT
               !.name = "tenants",
               !.tasks = {"t1"},
               !.secondTenantKey = "a:budget",
               !.calls = {Call(<<"x">>, NoneStr, NoneStr, FALSE),
                          Call(<<"budget", ":", "x">>, NoneStr, NoneStr, FALSE),
                          [Call(<<"x">>, NoneStr, NoneStr, FALSE)
                             EXCEPT !.controller = "second"]}]]}

(* one tenant with all five kinds of state in use: a budget, the loop   *)
(* breaker, the circuit breaker, resource locks and idempotency keys;   *)
(* tools named "t", "budget" and "lock", called for run "x" with and     *)
(* without the destination host "x", over state adapters                *)
KeyScenarios ==
  {[cfg |-> [BaseCfg EXCEPT
               !.maxToolCalls = 3,
               !.loopBreaker.enabled = TRUE,
               !.circuitBreaker.enabled = TRUE,
               !.concurrency.enabled = TRUE],
    env |-> [BaseEnv EXCEPT
               !.name = "keys",
               !.asyncState = TRUE,
               !.tasks = {"t1"},
               !.outcomes = {Ok("a"), Fails(TRUE, "NETWORK_ERROR", "unavailable", 503)},
               !.resets = {<<"x">>},
               !.calls = {[Call(<<"x">>, <<"k">>, <<"r">>, FALSE)
                             EXCEPT !.toolName = tn, !.destination = d] :
                          tn \in {<<"t">>, <<"b", "u", "d", "g", "e", "t">>,
                                  <<"l", "o", "c", "k">>},
                          d \in {NoneStr, <<"x">>}}]]}

(* durations in units of 1000 ms *)
DEFAULT_LOOP_BREAKER ==
  [enabled |-> TRUE, warningThreshold |-> 5, quarantineThreshold |-> 8,
   stopThreshold |-> 12, quarantineMs |-> 15, stopCooldownMs |-> 120,
   maxFingerprints |-> 200]

(* max(minimum, _to_int(_clamp_number(value, fallback, minimum), fallback)) *)
(* for an integer or an absent (NoInt) value                               *)
to_int_at_least(value, fallback, minimum) ==
  max2(minimum, max2(minimum, IF value = NoInt THEN fallback ELSE value))

(* overrides.enabled is {} when the key is absent, else {TRUE} or {FALSE} *)
resolve_loop_breaker_config(defaults, overrides) ==
  [enabled |-> IF overrides.enabled = {} THEN defaults.enabled ELSE TRUE \in overrides.enabled,
   warningThreshold |->
     to_int_at_least(overrides.warningThreshold, defaults.warningThreshold, 1),
   quarantineThreshold |->
     to_int_at_least(overrides.quarantineThreshold, defaults.quarantineThreshold, 1),
   stopThreshold |-> to_int_at_least(overrides.stopThreshold, defaults.stopThreshold, 1),
   quarantineMs |-> to_int_at_least(overrides.quarantineMs, defaults.quarantineMs, 0),
   stopCooldownMs |-> to_int_at_least(overrides.stopCooldownMs, defaults.stopCooldownMs, 0),
   maxFingerprints |->
     to_int_at_least(overrides.maxFingerprints, defaults.maxFingerprints, 20)]

(* two tasks repeating one fingerprint under a loop breaker whose thresholds *)
(* are reached within a few calls; quarantine and stop last 1000 and 2000   *)
(* ms, or no time at all; the last configuration passes a quarantine        *)
(* threshold above the stop threshold and a warning threshold of 0          *)
LoopScenarios ==
  {[cfg |-> [BaseCfg EXCEPT
               !.loopBreaker = resolve_loop_breaker_config(DEFAULT_LOOP_BREAKER,
                                 [enabled |-> {}, warningThreshold |-> k.w,
                                  quarantineThreshold |-> k.q, stopThreshold |-> 2,
                                  quarantineMs |-> k.qMs, stopCooldownMs |-> k.sMs,
                                  maxFingerprints |-> NoInt])],
    env |-> [BaseEnv EXCEPT
               !.name = "loop",
               !.outcomes = {Ok("a"), Ok("b")}]] :
     k \in {[w |-> 1, q |-> 1, qMs |-> 1, sMs |-> 2],
            [w |-> 1, q |-> 1, qMs |-> 0, sMs |-> 0],
            [w |-> 0, q |-> 3, qMs |-> 1, sMs |-> 1]}}

(* two tasks over a plugged state adapter whose get and set are awaited *)
AdapterScenarios ==
  {[cfg |-> [BaseCfg EXCEPT !.maxToolCalls = 1],
    env |-> [BaseEnv EXCEPT
               !.name = "adapter",
               !.asyncState = TRUE,
               !.calls = {Call(NoneStr, NoneStr, NoneStr, FALSE),
                          Call(<<"x">>, NoneStr, NoneStr, FALSE)},
               !.outcomes = {Ok("a"), Fails(FALSE, "", "boom", NoInt)},
               !.resets = {NoneStr}]],
   [cfg |-> [BaseCfg EXCEPT
               !.loopBreaker = [enabled |-> TRUE, warningThreshold |-> 1,
                                quarantineThreshold |-> 1, stopThreshold |-> 2,
                                quarantineMs |-> 1, stopCooldownMs |-> 2,
                                maxFingerprints |-> 200]],
    env |-> [BaseEnv EXCEPT
               !.name = "adapter-loop",
               !.asyncState = TRUE,
               !.outcomes = {Ok("a"), Fails(FALSE, "", "boom", NoInt)}]]}

(* the runs of the lock and the cancel scenarios together with the end *)
(* of the executor tasks that _race_with_abort asked to cancel          *)
NextCancel ==
  \/ \E p \in Procs, c \in env.calls : Begin(p, c)
  \/ \E p \in Procs : enforce_policy(p)
  \/ \E p \in Procs : enforce_before_verifier(p)
  \/ \E p \in Procs : try_replay_idempotency(p)
  \/ \E p \in Procs : enforce_run_budget_get(p)
  \/ \E p \in Procs : loop_before_call(p)
  \/ \E p \in Procs : acquire_resource_lock(p)
  \/ \E p \in Procs : lock_wait_poll(p)
  \/ \E p \in Procs : start_attempt(p)
  \/ \E p \in Procs, o \in env.outcomes : executor_completes(p, o)
  \/ \E p \in Procs : on_timeout(p)
  \/ \E p \in Procs : caller_abort(p)
  \/ \E p \in Procs : race_with_abort(p)
  \/ \E p \in Procs : cancelled_executor_ends(p)
  \/ \E p \in Procs : on_success(p)
  \/ \E p \in Procs : on_error(p)
  \/ \E p \in Procs : backoff_wake(p)
  \/ \E p \in Procs : release_lock(p)
  \/ Tick

Scenarios ==
  LockScenarios \cup IdempotencyScenarios \cup BudgetScenarios \cup CancelScenarios
    \cup RetryScenarios \cup PreAbortedScenarios \cup LoopScenarios
    \cup CircuitScenarios \cup DestinationScenarios \cup TenantScenarios

InitWith(S) ==
  /\ \E sc \in S : cfg = sc.cfg /\ env = sc.env
  /\ now = 0
  /\ running = NoProc
  /\ runsStarted = 0
  /\ budgetStore = EmptyStore
  /\ loopStore = env.loopSeed
  /\ circuitStore = EmptyStore
  /\ lockStore = EmptyStore
  /\ idempotencyStore = EmptyStore
  /\ task = [p \in Procs |-> IdleTask]
  /\ exitStore = EmptyStore
  /\ audit = [admitted |-> EmptyStore, lastReset |-> NoneStr, passed |-> EmptyStore]

Init ==
  InitWith(Scenarios)

Spec ==
  Init /\ [][Next]_vars

SpecCancel ==
  InitWith(CancelScenarios \cup LockScenarios) /\ [][NextCancel]_vars

(* policy rules: tools, destinations and actionPrefixes are sets of *)
(* patterns, the empty set standing for an absent constraint        *)
Rule(action, tools, destinations, actionPrefixes) ==
  [action |-> action, tools |-> tools, destinations |-> destinations,
   actionPrefixes |-> actionPrefixes]

PolicyRulePool ==
  {Rule("allow", {<<"*">>}, {}, {}),
   Rule("allow", {<<"t">>}, {}, {}),
   Rule("deny", {<<"t">>}, {}, {}),
   Rule("require_approval", {<<"t">>}, {}, {}),
   Rule("require_approval", {<<"t", "*">>}, {}, {}),
   Rule("deny", {}, {<<"a">>}, {}),
   Rule("allow", {<<"t">>}, {<<"*">>}, {<<"r">>}),
   Rule("deny", {}, {}, {<<"r">>, <<"r", "w">>})}

(* one caller making one call (tool t or t2, with or without the action rw *)
(* and the destination https://a/v1) under every list of at most two rules *)
(* of the pool, in both modes, with and without an approval handler that   *)
(* may approve or refuse                                                   *)
PolicyScenarios ==
  {[cfg |-> [BaseCfg EXCEPT
               !.policy = [enabled |-> TRUE, mode |-> k.mode, rules |-> k.rules,
                           approvalHandler |-> k.handler]],
    env |-> [BaseEnv EXCEPT
               !.name = "policy",
               !.tasks = {"t1"},
               !.calls = {[Call(NoneStr, NoneStr, NoneStr, FALSE)
                             EXCEPT !.toolName = k.tool, !.action = k.action,
                                    !.destination = k.destination]}]] :
     k \in [mode : {"enforce", "dryRun"},
            rules : {<<>>} \cup {<<r>> : r \in PolicyRulePool}
                      \cup {<<r1, r2>> : r1 \in PolicyRulePool, r2 \in PolicyRulePool},
            handler : {{}, {TRUE, FALSE}},
            tool : {<<"t">>, <<"t", "2">>},
            action : {NoneStr, <<"r", "w">>},
            destination : {NoneStr, <<"https://", "a", "/v1">>}]}

(* the steps of a run that is made without signal, timeout, budget or lock *)
(* and whose executor succeeds                                             *)
NextPolicy ==
  \/ \E p \in Procs, c \in env.calls : Begin(p, c)
  \/ \E p \in Procs : enforce_policy(p)
  \/ \E p \in Procs : enforce_before_verifier(p)
  \/ \E p \in Procs : try_replay_idempotency(p)
  \/ \E p \in Procs : enforce_run_budget_get(p)
  \/ \E p \in Procs : loop_before_call(p)
  \/ \E p \in Procs : acquire_resource_lock(p)
  \/ \E p \in Procs : start_attempt(p)
  \/ \E p \in Procs, o \in env.outcomes : executor_completes(p, o)
  \/ \E p \in Procs : race_with_abort(p)
  \/ \E p \in Procs : on_success(p)
  \/ \E p \in Procs : release_lock(p)

SpecPolicy ==
  InitWith(PolicyScenarios) /\ [][NextPolicy]_vars

(* _run_on_event_sink_failure: the hook, when there is one, is called with *)
(* the event and the sink's index; what the hook raises is swallowed       *)
run_on_event_sink_failure(t, params) ==
  IF cfg.onEventSinkFailure = "none"
  THEN t
  ELSE [t EXCEPT !.sinkFailures = Append(@, params)]

(* one _fanout(sink, idx) task of emit_event, run by the event loop while *)
(* no run is executing                                                     *)
fanout(p) ==
  /\ running = NoProc
  /\ p \in env.tasks
  /\ pending_fanout(task[p]) # <<>>
  /\ LET t == task[p]
          job == Head(pending_fanout(t))
          t1 == IF t.backlog # <<>>
                THEN [t EXCEPT !.backlog = Tail(@)]
                ELSE [t EXCEPT !.fanned = @ + 1]
     IN task' = [task EXCEPT ![p] =
                   IF cfg.eventSinks[job.sinkIndex + 1] = "raises"
                   THEN run_on_event_sink_failure(t1, job)
                   ELSE t1]
  /\ UNCHANGED <<cfg, env, exitStore, audit, now, running, runsStarted, stores>>

(* one caller, two attempts without backoff and a budget of two calls: a *)
(* run emits retry or budget_stop; every combination of an onEvent       *)
(* callback, one or two sinks and a sink-failure hook                    *)
EventScenarios ==
  {[cfg |-> [BaseCfg EXCEPT !.maxToolCalls = 2,
                            !.retry = [maxAttempts |-> 2, initialDelayMs |-> 0,
                                       maxDelayMs |-> 0, backoffFactor |-> 1],
                            !.onEvent = k.onEvent,
                            !.eventSinks = k.eventSinks,
                            !.onEventSinkFailure = k.hook],
    env |-> [BaseEnv EXCEPT !.name = "events", !.tasks = {"t1"},
                            !.outcomes = {Ok("a"), Fails(TRUE, "NETWORK_ERROR", "down", 503)}]] :
   k \in [onEvent : {"none", "returns", "raises", "coroutine"},
          eventSinks : {<<>>, <<"raises">>, <<"returns", "raises">>, <<"raises", "raises">>},
          hook : {"none", "records", "raises"}]}

NextEvents ==
  \/ \E p \in Procs, c \in env.calls : Begin(p, c)
  \/ \E p \in Procs : enforce_policy(p)
  \/ \E p \in Procs : enforce_before_verifier(p)
  \/ \E p \in Procs : try_replay_idempotency(p)
  \/ \E p \in Procs : enforce_run_budget_get(p)
  \/ \E p \in Procs : enforce_run_budget_set(p)
  \/ \E p \in Procs : loop_before_call(p)
  \/ \E p \in Procs : acquire_resource_lock(p)
  \/ \E p \in Procs : start_attempt(p)
  \/ \E p \in Procs, o \in env.outcomes : executor_completes(p, o)
  \/ \E p \in Procs : race_with_abort(p)
  \/ \E p \in Procs : on_success(p)
  \/ \E p \in Procs : on_error(p)
  \/ \E p \in Procs : release_lock(p)
  \/ \E p \in Procs : fanout(p)

(* the event loop keeps running: a run that can take a step takes it, and *)
(* a task that is ready is run                                            *)
SpecEvents ==
  InitWith(EventScenarios) /\ [][NextEvents]_vars
    /\ WF_vars(NextEvents) /\ WF_vars(\E p \in Procs : fanout(p))

(* the exit condition of the safety layer applied to a configuration     *)
(* without verifiers: a budget of one or two steps per run, terminal      *)
(* action (tool "c" or any tool, action prefix "f"); a step, a terminal   *)
(* call and a call with the terminal prefix on another tool for run "x",  *)
(* and a step for run "y"                                                 *)
ExitScenarios ==
  {[cfg |-> [BaseCfg EXCEPT !.exitCondition =
               [enabled |-> TRUE, maxStepsPerRun |-> k.maxStepsPerRun,
                blockAfterTerminal |-> k.blockAfterTerminal,
                terminalActions |-> <<[toolNamePattern |-> k.toolNamePattern,
                                       actionPrefix |-> <<"f">>]>>]],
    env |-> [BaseEnv EXCEPT !.name = "exit",
               !.calls = {[Call(<<"x">>, NoneStr, NoneStr, FALSE) EXCEPT !.action = <<"p">>],
                          [Call(<<"x">>, NoneStr, NoneStr, FALSE)
                             EXCEPT !.toolName = <<"c">>, !.action = <<"f", "x">>],
                          [Call(<<"x">>, NoneStr, NoneStr, FALSE) EXCEPT !.action = <<"f">>],
                          [Call(<<"y">>, NoneStr, NoneStr, FALSE) EXCEPT !.action = <<"p">>]}]] :
   k \in [maxStepsPerRun : {1, 2}, blockAfterTerminal : BOOLEAN,
          toolNamePattern : {<<"c">>, <<"*">>}]}

SpecExit ==
  InitWith(ExitScenarios) /\ [][NextPolicy]_vars

(* two tasks of one run key over an exit-state adapter whose get and set *)
(* are awaited: a step and a terminal call of tool "c"                   *)
ExitAdapterScenarios ==
  {[cfg |-> [BaseCfg EXCEPT !.exitCondition =
               [enabled |-> TRUE, maxStepsPerRun |-> k.maxStepsPerRun,
                blockAfterTerminal |-> k.blockAfterTerminal,
                terminalActions |-> <<[toolNamePattern |-> <<"c">>,
                                       actionPrefix |-> <<"f">>]>>]],
    env |-> [BaseEnv EXCEPT !.name = "exit-adapter",
               !.asyncState = TRUE,
               !.calls = {[Call(<<"x">>, NoneStr, NoneStr, FALSE) EXCEPT !.action = <<"p">>],
                          [Call(<<"x">>, NoneStr, NoneStr, FALSE)
                             EXCEPT !.toolName = <<"c">>, !.action = <<"f", "x">>]}]] :
   k \in [maxStepsPerRun : {1, 2}, blockAfterTerminal : BOOLEAN]}

NextExitAdapter ==
  \/ \E p \in Procs, c \in env.calls : Begin(p, c)
  \/ \E p \in Procs : enforce_policy(p)
  \/ \E p \in Procs : enforce_before_verifier(p)
  \/ \E p \in Procs : safety_before_call_set(p)
  \/ \E p \in Procs : try_replay_idempotency(p)
  \/ \E p \in Procs : enforce_run_budget_get(p)
  \/ \E p \in Procs : loop_before_call(p)
  \/ \E p \in Procs : acquire_resource_lock(p)
  \/ \E p \in Procs : start_attempt(p)
  \/ \E p \in Procs, o \in env.outcomes : executor_completes(p, o)
  \/ \E p \in Procs : race_with_abort(p)
  \/ \E p \in Procs : on_success(p)
  \/ \E p \in Procs : release_lock(p)

SpecExitAdapter ==
  InitWith(ExitAdapterScenarios) /\ [][NextExitAdapter]_vars

(* _build_intent_allowlist_policy_rules: one allow rule per entry, then *)
(* the fallback deny for every tool                                     *)
build_intent_allowlist_policy_rules(rules) ==
  IF rules = <<>>
  THEN <<>>
  ELSE [i \in 1..(Len(rules) + 1) |->
          IF i <= Len(rules)
          THEN Rule("allow", {rules[i].toolNamePattern}, rules[i].destinations,
                    rules[i].actionPrefixes)
          ELSE Rule("deny", {<<"*">>}, {}, {})]

AllowlistEntries ==
  [toolNamePattern : {<<"t">>, <<"t", "*">>, <<"*">>},
   actionPrefixes : {{}, {<<"r">>}},
   destinations : {{}, {<<"a">>}}]

(* apply_agent_logic_safety over a base configuration without policy: an *)
(* allowlist of one or two entries, enforce mode                         *)
AllowlistScenarios ==
  {[cfg |-> [BaseCfg EXCEPT !.intentAllowlist = k.rules,
                            !.policy = [enabled |-> TRUE, mode |-> "enforce",
                                        approvalHandler |-> {},
                                        rules |-> build_intent_allowlist_policy_rules(k.rules)]],
    env |-> [BaseEnv EXCEPT !.name = "allowlist", !.tasks = {"t1"},
               !.calls = {[Call(NoneStr, NoneStr, NoneStr, FALSE)
                             EXCEPT !.toolName = c.tool, !.action = c.action,
                                    !.destination = c.destination] :
                          c \in [tool : {<<"t">>, <<"t", "2">>, <<"u">>},
                                 action : {NoneStr, <<"r", "w">>},
                                 destination : {NoneStr, <<"https://", "a", "/v1">>}]}]] :
   k \in [rules : {<<e>> : e \in AllowlistEntries}
                    \cup {<<e1, e2>> : e1, e2 \in AllowlistEntries}]}

SpecAllowlist ==
  InitWith(AllowlistScenarios) /\ [][NextPolicy]_vars

(* rules of a base policy that the allowlist rules are put in front of *)
BaseRulePool ==
  {Rule("allow", {<<"u">>}, {}, {}),
   Rule("allow", {<<"*">>}, {}, {}),
   Rule("allow", {<<"t", "*">>}, {<<"a">>}, {<<"r">>}),
   Rule("deny", {<<"t">>}, {}, {}),
   Rule("require_approval", {<<"u">>}, {}, {})}

(* apply_agent_logic_safety over a base configuration whose policy has one *)
(* rule and an approval handler that may approve or refuse: an allowlist   *)
(* of one entry, enforce mode                                              *)
AllowlistBaseScenarios ==
  {[cfg |-> [BaseCfg EXCEPT !.intentAllowlist = <<k.entry>>,
                            !.policy = [enabled |-> TRUE, mode |-> "enforce",
                                        approvalHandler |-> {TRUE, FALSE},
                                        rules |-> build_intent_allowlist_policy_rules(<<k.entry>>)
                                                    \o <<k.base>>]],
    env |-> [BaseEnv EXCEPT !.name = "allowlist-base", !.tasks = {"t1"},
               !.calls = {[Call(NoneStr, NoneStr, NoneStr, FALSE)
                             EXCEPT !.toolName = c.tool, !.action = c.action,
                                    !.destination = c.destination] :
                          c \in [tool : {<<"t">>, <<"t", "2">>, <<"u">>},
                                 action : {NoneStr, <<"r", "w">>},
                                 destination : {NoneStr, <<"https://", "a", "/v1">>}]}]] :
   k \in [entry : AllowlistEntries, base : BaseRulePool]}

SpecAllowlistBase ==
  InitWith(AllowlistBaseScenarios) /\ [][NextPolicy]_vars

(* args of two shapes that differ by the order of their keys only: a   *)
(* dict of two entries, alone, under a key of an outer dict, or as the *)
(* item of a list; the values are numbers or an object that is not a   *)
(* JSON value                                                          *)
ArgLeaves ==
  {Atom("1"), Atom("2"), Other("o")}

ArgDicts ==
  {Dict(ks, <<v[ks[1]], v[ks[2]]>>) :
     ks \in {<<"a", "b">>, <<"b", "a">>}, v \in [{"a", "b"} -> ArgLeaves]}

ArgPool ==
  ArgDicts \cup {Dict(<<"c">>, <<d>>) : d \in ArgDicts} \cup {List(<<d>>) : d \in ArgDicts}

(* Python's == on args: dicts compare without regard to order *)
RECURSIVE DataEq(_, _)
DataEq(x, y) ==
  /\ x.kind = y.kind
  /\ CASE x.kind = "list" ->
            /\ Len(x.items) = Len(y.items)
            /\ \A i \in DOMAIN x.items : DataEq(x.items[i], y.items[i])
       [] x.kind = "dict" ->
            /\ {x.keys[i] : i \in DOMAIN x.keys} = {y.keys[i] : i \in DOMAIN y.keys}
            /\ \A i \in DOMAIN x.keys :
                 DataEq(x.vals[i], value_at(y, x.keys[i]))
       [] OTHER -> x.text = y.text

(* one caller repeating a tool with args that are equal as data, under a *)
(* loop breaker that warns at the second equal outcome                   *)
FingerprintScenarios ==
  {[cfg |-> [BaseCfg EXCEPT
               !.loopBreaker = resolve_loop_breaker_config(DEFAULT_LOOP_BREAKER,
                                 [enabled |-> {}, warningThreshold |-> 2,
                                  quarantineThreshold |-> 99, stopThreshold |-> 99,
                                  quarantineMs |-> NoInt, stopCooldownMs |-> NoInt,
                                  maxFingerprints |-> 200])],
    env |-> [BaseEnv EXCEPT !.name = "fingerprint", !.tasks = {"t1"},
               !.calls = {[Call(NoneStr, NoneStr, NoneStr, FALSE) EXCEPT !.args = k[1]],
                          [Call(NoneStr, NoneStr, NoneStr, FALSE) EXCEPT !.args = k[2]]}]] :
   k \in {k \in ArgPool \X ArgPool : k[1] # k[2] /\ DataEq(k[1], k[2])}}

SpecFingerprint ==
  InitWith(FingerprintScenarios) /\ [][NextPolicy]_vars

(* one task, two attempts without a backoff, an after-success verifier   *)
(* that may reject, an idempotency key, and the after-error verifier and *)
(* includeErrors either way                                              *)
VerifierScenarios ==
  {[cfg |-> [BaseCfg EXCEPT
               !.maxToolCalls = 2,
               !.retry = [maxAttempts |-> 2, initialDelayMs |-> 0,
                          maxDelayMs |-> 0, backoffFactor |-> 1],
               !.eventSinks = <<"returns">>,
               !.verifiers = [beforeCall |-> {}, afterSuccess |-> {TRUE, FALSE},
                              afterError |-> k.ae],
               !.idempotency = [enabled |-> TRUE, ttlMs |-> NoInt, includeErrors |-> k.ie,
                                namespaceByRunKey |-> TRUE]],
    env |-> [BaseEnv EXCEPT
               !.name = "verifier",
               !.tasks = {"t1"},
               !.calls = {Call(<<"x">>, <<"k">>, NoneStr, FALSE)},
               !.outcomes = {Ok("a"), Fails(TRUE, "NETWORK_ERROR", "down", 503)}]] :
   k \in [ae : {{}, {TRUE, FALSE}}, ie : BOOLEAN]}

SpecVerifier ==
  InitWith(VerifierScenarios) /\ [][NextEvents]_vars

(* two tasks making the same call under one idempotency key, without a *)
(* TTL, with failures either cached or not                             *)
IdempotencyRaceScenarios ==
  {[cfg |-> [BaseCfg EXCEPT
               !.maxToolCalls = 3,
               !.eventSinks = <<"returns">>,
               !.idempotency = [enabled |-> TRUE, ttlMs |-> NoInt, includeErrors |-> k.ie,
                                namespaceByRunKey |-> TRUE]],
    env |-> [BaseEnv EXCEPT
               !.name = "idempotency-race",
               !.calls = {Call(<<"x">>, <<"k">>, NoneStr, FALSE)},
               !.outcomes = {Ok("a"), Fails(FALSE, "", "boom", NoInt)}]] :
   k \in [ie : BOOLEAN]}

SpecIdempotencyRace ==
  InitWith(IdempotencyRaceScenarios) /\ [][NextEvents]_vars

(* the steps a run can take when no timeout, signal, retry or lock is set up *)
NextAdapter ==
  \/ \E p \in Procs, c \in env.calls : Begin(p, c)
  \/ \E p \in Procs : enforce_policy(p)
  \/ \E p \in Procs : enforce_before_verifier(p)
  \/ \E p \in Procs : try_replay_idempotency(p)
  \/ \E p \in Procs : enforce_run_budget_get(p)
  \/ \E p \in Procs : enforce_run_budget_set(p)
  \/ \E p \in Procs : loop_before_call(p)
  \/ \E p \in Procs : acquire_resource_lock(p)
  \/ \E p \in Procs : start_attempt(p)
  \/ \E p \in Procs, o \in env.outcomes : executor_completes(p, o)
  \/ \E p \in Procs : race_with_abort(p)
  \/ \E p \in Procs : on_success(p)
  \/ \E p \in Procs : on_error(p)
  \/ \E p \in Procs : record_loop_outcome_set(p)
  \/ \E p \in Procs : release_lock(p)
  \/ \E k \in env.resets : reset(k)

SpecAdapter ==
  InitWith(AdapterScenarios) /\ [][NextAdapter]_vars

SpecKeys ==
  InitWith(KeyScenarios) /\ [][NextAdapter]_vars

(* the smallest maxFingerprints that _resolve_loop_breaker_config admits *)
SeedCount ==
  20

(* the loop store after SeedCount runs of as many tools, the first of them *)
(* 3000 ms and the others 2000 ms before the origin of the clock           *)

SeededLoopStore(tenantKey) ==
  LET key(i) == get_loop_state_key(tenantKey, build_fingerprint(<<"s", ToString(i)>>, NoArgs))
      at(i) == IF i = 1 THEN 0 - 3 ELSE 0 - 2
  IN [k \in {key(i) : i \in 1..SeedCount} |->
        LET i == CHOOSE j \in 1..SeedCount : key(j) = k
        IN [streak |-> 1, lastSeenAt |-> at(i),
            lastOutcomeHash |-> build_outcome_hash(TRUE, NoInt, "null", "null", "a"),
            quarantineUntil |-> NoInt, stopUntil |-> NoInt]]

(* two tasks calling two new tools and the oldest known one over a loop *)
(* store that holds SeedCount fingerprints, with maxFingerprints passed *)
(* as 1 (raised to the floor of 20) or 21, over the built-in store or a *)
(* state adapter whose methods are awaited                              *)
PruneScenarios ==
  {[cfg |-> [BaseCfg EXCEPT
               !.loopBreaker = resolve_loop_breaker_config(DEFAULT_LOOP_BREAKER,
                                 [enabled |-> {}, warningThreshold |-> 100,
                                  quarantineThreshold |-> 200, stopThreshold |-> 300,
                                  quarantineMs |-> NoInt, stopCooldownMs |-> NoInt,
                                  maxFingerprints |-> k.mf])],
    env |-> [BaseEnv EXCEPT
               !.name = "prune",
               !.asyncState = k.async,
               !.calls = {[Call(NoneStr, NoneStr, NoneStr, FALSE) EXCEPT !.toolName = n] :
                            n \in {<<"u">>, <<"v">>, <<"s", "1">>}},
               !.loopSeed = SeededLoopStore(BaseCfg.tenantKey)]] :
   k \in [mf : {1, 21}, async : BOOLEAN]}

NextPrune ==
  \/ \E p \in Procs, c \in env.calls : Begin(p, c)
  \/ \E p \in Procs : enforce_policy(p)
  \/ \E p \in Procs : enforce_before_verifier(p)
  \/ \E p \in Procs : try_replay_idempotency(p)
  \/ \E p \in Procs : enforce_run_budget_get(p)
  \/ \E p \in Procs : loop_before_call(p)
  \/ \E p \in Procs : acquire_resource_lock(p)
  \/ \E p \in Procs : start_attempt(p)
  \/ \E p \in Procs, o \in env.outcomes : executor_completes(p, o)
  \/ \E p \in Procs : race_with_abort(p)
  \/ \E p \in Procs : on_success(p)
  \/ \E p \in Procs : record_loop_outcome_set(p)
  \/ \E p \in Procs : prune_loop_states_delete(p)
  \/ \E p \in Procs : release_lock(p)

SpecPrune ==
  InitWith(PruneScenarios) /\ [][NextPrune]_vars

--------------------------------------------------------------------------
(* C1: at most one executor is in progress per (tenant, resource key) at  *)
(* any instant, whatever the lease and the length of the attempts: no two *)
(* runs holding the same lock key are inside their executor together.     *)
C1_OneExecutorPerResourceKey ==
  \A p, q \in Procs :
    (/\ p # q
     /\ task[p].pc = "exec" /\ task[q].pc = "exec"
     /\ task[p].fnDone = <<>> /\ task[q].fnDone = <<>>
     /\ HasResourceKey(task[p].ctx) /\ HasResourceKey(task[q].ctx))
    => LockKeyOf(task[p].ctx) # LockKeyOf(task[q].ctx)

(* C2: every run that acquired a resource lock has released it when the  *)
(* run has returned or raised, on every exit path: no finished run still *)
(* has a record under its owner token in the lock store.                 *)
C2_LockReleasedAtExit ==
  \A p \in Procs :
    (task[p].pc = "done" /\ task[p].lockRef # NoLock)
    => ~(/\ task[p].lockRef.key \in DOMAIN lockStore
         /\ lockStore[task[p].lockRef.key].owner = task[p].lockRef.owner)

(* a run that held the lock, was cancelled during its backoff sleep and *)
(* has raised                                                           *)
C2_Witness ==
  \E p \in Procs :
    /\ task[p].pc = "done" /\ task[p].lockRef # NoLock
    /\ task[p].aborted
    /\ task[p].outcome.kind = "err"
    /\ task[p].outcome.error.message = "Tool call cancelled by caller"
    /\ \E i \in DOMAIN task[p].events : task[p].events[i] = "retry"

C4_ReplayChangesNothing ==
  [][\A p \in Procs :
       (task'[p].replayed /\ ~task[p].replayed)
       => /\ task'[p].execs = 0
          /\ task[p].snap # <<>>
          /\ budgetStore' = task[p].snap[1].budget
          /\ loopStore' = task[p].snap[1].loop
          /\ lockStore' = task[p].snap[1].lock
          /\ circuitStore' = task[p].snap[1].circuit]_vars

(* a successful replay although the run's budget is used up, with loop and *)
(* circuit state on record                                                 *)
C4_Witness ==
  \E p \in Procs :
    /\ task[p].pc = "done" /\ task[p].replayed /\ task[p].outcome.kind = "ok"
    /\ cfg.maxToolCalls # NoInt
    /\ budget_count(budgetStore, BudgetKeyOf(task[p].ctx)) >= cfg.maxToolCalls
    /\ loopStore # EmptyStore /\ circuitStore # EmptyStore

(* C5: a run that reaches the idempotency gate with a record under the   *)
(* call's state key: if the record has not expired the run emits exactly *)
(* one idempotency_replay event, invokes the executor zero times and     *)
(* returns the stored result or raises the stored error; if the record's *)
(* expiresAt <= now the record is dropped and the run goes on to the     *)
(* budget gate without replaying.                                        *)
C5_ReplayOrExpire ==
  [][\A p \in Procs :
       (/\ task[p].pc = "replay" /\ task'[p] # task[p]
        /\ IdemKeyOf(task[p].ctx) # NoKey
        /\ IdemKeyOf(task[p].ctx) \in DOMAIN idempotencyStore)
       => LET key == IdemKeyOf(task[p].ctx)
              rec == idempotencyStore[key]
          IN IF rec.expiresAt = NoInt \/ rec.expiresAt > now
             THEN /\ task'[p].pc = "done" /\ task'[p].replayed
                  /\ task'[p].execs = 0
                  /\ Cardinality({i \in DOMAIN task'[p].events :
                                    task'[p].events[i] = "idempotency_replay"}) = 1
                  /\ rec.ok => /\ task'[p].outcome.kind = "ok"
                               /\ task'[p].outcome.data = rec.result
                  /\ ~rec.ok => /\ task'[p].outcome.kind = "err"
                                /\ task'[p].outcome.error.message = rec.error.message
                                /\ task'[p].outcome.error.code = rec.error.code
                  /\ idempotencyStore' = idempotencyStore
             ELSE /\ key \notin DOMAIN idempotencyStore'
                  /\ task'[p].pc = "budget" /\ ~task'[p].replayed
                  /\ task'[p].events = task[p].events]_vars

(* a record expired, was dropped at the gate, and the executor ran again *)
C5_Witness ==
  \E p \in Procs :
    /\ task[p].pc = "done" /\ task[p].expiredDrop /\ ~task[p].replayed
    /\ task[p].execs = 1 /\ task[p].outcome.kind = "ok"

(* C6: with includeErrors false a terminal failure writes nothing to the   *)
(* idempotency store, the store of a lone caller has no record for the key *)
(* after it, and no error is ever replayed; with includeErrors             *)
(* true the terminal failure is stored under the call's key with its code  *)
(* and status code, and a replay of a stored error raises a failure with   *)
(* the stored code and status code.                                        *)
C6_IncludeErrors ==
  [][\A p \in Procs :
       /\ (task[p].pc = "on_error" /\ task'[p].pc = "release")
          => IF ~cfg.idempotency.includeErrors
             THEN /\ idempotencyStore' = idempotencyStore
                  /\ (\A q \in Procs \ {p} : task[q].pc = "idle")
                     => IdemKeyOf(task[p].ctx) \notin DOMAIN idempotencyStore'
             ELSE IdemKeyOf(task[p].ctx) # NoKey
                  => /\ IdemKeyOf(task[p].ctx) \in DOMAIN idempotencyStore'
                     /\ LET rec == idempotencyStore'[IdemKeyOf(task[p].ctx)]
                        IN /\ ~rec.ok
                           /\ rec.error.code = task'[p].outcome.error.code
                           /\ rec.error.statusCode = failure_status(task'[p].outcome.error)
       /\ (task'[p].replayed /\ ~task[p].replayed /\ task'[p].outcome.kind = "err")
          => /\ cfg.idempotency.includeErrors
             /\ LET rec == idempotencyStore[IdemKeyOf(task[p].ctx)]
                IN /\ task'[p].outcome.error.code = rec.error.code
                   /\ failure_status(task'[p].outcome.error) = rec.error.statusCode]_vars

(* a stored NOT_FOUND / 404 failure raised again by a replay *)
C6_Witness ==
  \E p \in Procs :
    /\ task[p].pc = "done" /\ task[p].replayed /\ task[p].execs = 0
    /\ task[p].outcome.kind = "err"
    /\ task[p].outcome.error.code = "NOT_FOUND"
    /\ failure_status(task[p].outcome.error) = 404

admitted_count(budget_key) ==
  IF budget_key \in DOMAIN audit.admitted THEN audit.admitted[budget_key] ELSE 0

(* C7: with maxToolCalls set and the in-memory store, the runs admitted by *)
(* the budget gate since the last reset of a key never number more than    *)
(* maxToolCalls; a run that meets the gate with that many already admitted *)
(* raises INVALID_REQUEST "budget exceeded", emits budget_stop, has made   *)
(* no executor invocation and leaves the counter alone; a run that meets   *)
(* it with fewer (after a reset, say) is admitted and counted.             *)
C7_BudgetGate ==
  [][/\ \A k \in DOMAIN audit.admitted' :
          cfg.maxToolCalls # NoInt => audit.admitted'[k] <= cfg.maxToolCalls
     /\ \A p \in Procs :
          (task[p].pc = "budget_set" /\ task'[p] # task[p])
          => LET k == BudgetKeyOf(task[p].ctx)
             IN IF admitted_count(k) >= cfg.maxToolCalls
                THEN /\ task'[p].pc = "done"
                     /\ task'[p].outcome.kind = "err"
                     /\ task'[p].outcome.error.code = "INVALID_REQUEST"
                     /\ task'[p].outcome.error.message = "Tool-call budget exceeded for run"
                     /\ task'[p].events = Append(task[p].events, "budget_stop")
                     /\ task'[p].execs = 0
                     /\ budgetStore' = budgetStore
                ELSE /\ task'[p].pc = "loop_pre"
                     /\ budget_count(budgetStore', k) = admitted_count(k) + 1
                     /\ audit.admitted'[k] = admitted_count(k) + 1]_vars

(* a run was rejected on a budget of one call, and a run entered later on *)
(* the same key has been admitted and is in its executor: the key was     *)
(* reset in between                                                       *)
C7_Witness ==
  \E p, q \in Procs :
    /\ cfg.maxToolCalls = 1
    /\ task[p].pc = "done" /\ task[p].outcome.kind = "err"
    /\ task[p].outcome.error.message = "Tool-call budget exceeded for run"
    /\ task[q].pc = "exec" /\ task[q].seq > task[p].seq
    /\ BudgetKeyOf(task[q].ctx) = BudgetKeyOf(task[p].ctx)

(* C8: for a state store whose get and set are awaited, over every        *)
(* interleaving of runs that share a run key, no increment is lost: the   *)
(* stored count equals the number of runs admitted since the last reset,  *)
(* and that number never exceeds maxToolCalls.                            *)
C8_BudgetSerialized ==
  \A k \in DOMAIN audit.admitted :
    /\ budget_count(budgetStore, k) = audit.admitted[k]
    /\ cfg.maxToolCalls # NoInt => audit.admitted[k] <= cfg.maxToolCalls

(* C9: reset(runKey) deletes the budget counter of the normalized run key *)
(* (a blank or missing key is "default") and nothing else: every other    *)
(* counter and the loop, circuit, idempotency and lock stores are as they *)
(* were.                                                                  *)
C9_ResetOnlyThatKey ==
  [][(task' = task /\ now' = now /\ audit' # audit)
     => LET rk == audit.lastReset'
            name == IF rk = NoneStr \/ rk = <<>> \/ rk = <<" ">> THEN "default"
                    ELSE IF rk = <<"x", " ">> THEN "x"
                    ELSE Flat(rk)
            key == cfg.tenantKey \o ":budget:" \o name
        IN /\ DOMAIN budgetStore' = DOMAIN budgetStore \ {key}
           /\ \A k \in DOMAIN budgetStore' : budgetStore'[k] = budgetStore[k]
           /\ UNCHANGED <<loopStore, circuitStore, idempotencyStore, lockStore>>]_vars

(* reset("x ") has removed the counter of a run that is still in its *)
(* executor, and the counter of "default" is still there             *)
C9_Witness ==
  \E q \in Procs :
    /\ task[q].pc = "exec"
    /\ BudgetKeyOf(task[q].ctx) = "acme:budget:x"
    /\ audit.lastReset = <<"x", " ">>
    /\ "acme:budget:x" \notin DOMAIN budgetStore
    /\ "acme:budget:default" \in DOMAIN budgetStore
    /\ budgetStore["acme:budget:default"].count >= 1

(* C10: once the caller's abort signal has fired the run invokes the     *)
(* executor no more, emits no retry event and starts no further attempt, *)
(* for every retry configuration and every retry classifier result.      *)
C10_CancelledNeverRetries ==
  \A p \in Procs :
    task[p].abortedAt # <<>>
    => /\ task[p].execs = task[p].abortedAt[1].execs
       /\ retries_emitted(task[p]) = task[p].abortedAt[1].retries
       /\ (task[p].pc # "done" /\ task[p].abortedAt[1].attempt >= 1)
          => task[p].attempt = task[p].abortedAt[1].attempt

(* C11: under the default retry decision (no retry classifier) a failure *)
(* whose code is UNAUTHORIZED, INVALID_REQUEST, VALIDATION_ERROR,         *)
(* NOT_FOUND or SIZE_LIMIT_EXCEEDED is never retried, whatever its status *)
(* code: no run is on its way to a further attempt after such a failure.  *)
C11_FatalCodesNeverRetried ==
  \A p \in Procs :
    ~(/\ cfg.retryClassifier = {}
      /\ task[p].pc \in {"circuit", "backoff"}
      /\ task[p].raw.hasCode
      /\ task[p].raw.code \in FatalCodes)

(* C12: a run that has returned successfully without a replay invoked the *)
(* executor exactly (retry events of the run + 1) times and at most       *)
(* maxAttempts times; a replayed run invoked it zero times.               *)
C12_ExecutionsMatchRetries ==
  \A p \in Procs :
    /\ (task[p].pc = "done" /\ task[p].outcome.kind = "ok" /\ ~task[p].replayed)
       => /\ task[p].execs = retries_emitted(task[p]) + 1
          /\ task[p].execs <= cfg.retry.maxAttempts
    /\ (task[p].pc = "done" /\ task[p].replayed) => task[p].execs = 0

(* two failures with NETWORK_ERROR / 503, then success, under maxAttempts 3 *)
C12_Witness ==
  \E p \in Procs :
    /\ task[p].pc = "done" /\ task[p].outcome.kind = "ok" /\ ~task[p].replayed
    /\ cfg.retryClassifier = {} /\ cfg.retry.maxAttempts = 3
    /\ task[p].execs = 3
    /\ task[p].events = <<"retry", "retry">>

(* C13: a run whose caller signal is already aborted on entry raises     *)
(* NETWORK_ERROR "cancelled", never invokes the executor, and leaves the  *)
(* budget counter, the loop state, the circuit samples, the lock store    *)
(* and the idempotency store as they were on entry.                       *)
C13_PreAbortedNoSideEffect ==
  \A p \in Procs :
    (/\ task[p].pc = "done"
     /\ task[p].ctx.hasSignal /\ task[p].ctx.preAborted
     /\ task[p].snap # <<>>)
    => /\ task[p].outcome.kind = "err"
       /\ task[p].outcome.error.code = "NETWORK_ERROR"
       /\ task[p].outcome.error.message = "Tool call cancelled by caller"
       /\ task[p].execs = 0
       /\ budgetStore = task[p].snap[1].budget
       /\ loopStore = task[p].snap[1].loop
       /\ circuitStore = task[p].snap[1].circuit
       /\ lockStore = task[p].snap[1].lock
       /\ idempotencyStore = task[p].snap[1].idempotency

--------------------------------------------------------------------------
(* C14: a run that reaches the loop gate while the state of its            *)
(* fingerprint has stopUntil > now ends there with INVALID_REQUEST "Loop   *)
(* breaker blocked ...", and one that reaches it while only                *)
(* quarantineUntil > now ends with INVALID_REQUEST "Loop breaker           *)
(* quarantined ..."; in both cases the executor has not been invoked and   *)
(* the loop store is left as it was.  Stop wins when both timers run.      *)
LoopStopActive(p) ==
  /\ LoopKeyOf(task[p].ctx) \in DOMAIN loopStore
  /\ loopStore[LoopKeyOf(task[p].ctx)].stopUntil # NoInt
  /\ loopStore[LoopKeyOf(task[p].ctx)].stopUntil > now

LoopQuarantineActive(p) ==
  /\ LoopKeyOf(task[p].ctx) \in DOMAIN loopStore
  /\ loopStore[LoopKeyOf(task[p].ctx)].quarantineUntil # NoInt
  /\ loopStore[LoopKeyOf(task[p].ctx)].quarantineUntil > now

LoopRejected(p, message) ==
  /\ task'[p].pc = "done"
  /\ task'[p].outcome.kind = "err"
  /\ task'[p].outcome.error.code = "INVALID_REQUEST"
  /\ task'[p].outcome.error.message = message
  /\ task'[p].execs = 0
  /\ loopStore' = loopStore

C14_LoopGateBlocks ==
  [][\A p \in Procs :
       (task[p].pc = "loop_pre" /\ task'[p] # task[p] /\ cfg.loopBreaker.enabled) =>
         /\ LoopStopActive(p) =>
              LoopRejected(p, "Loop breaker blocked repeated no-progress tool pattern")
         /\ (~LoopStopActive(p) /\ LoopQuarantineActive(p)) =>
              LoopRejected(p, "Loop breaker quarantined repeated tool pattern")]_vars

C14_Witness ==
  \E p \in Procs :
    /\ task[p].pc = "done"
    /\ task[p].outcome.kind = "err"
    /\ task[p].outcome.error.message = "Loop breaker blocked repeated no-progress tool pattern"
    /\ task[p].execs = 0
    /\ LoopStopActive(p)
    /\ LoopQuarantineActive(p)

--------------------------------------------------------------------------
(* C15: loop_stop (resp. loop_quarantine) is emitted for a fingerprint    *)
(* only when the stop (resp. quarantine) timer held by the loop store for *)
(* that fingerprint is not running: it was never set, it has expired, or  *)
(* the outcome being recorded differs from the last one and clears it.    *)
(* So no second emission follows a first one while its timer still runs.  *)
EmittedIn(p, type) ==
  /\ Len(task'[p].events) > Len(task[p].events)
  /\ \E i \in (Len(task[p].events) + 1)..Len(task'[p].events) : task'[p].events[i] = type

LoopTimerClearedBy(p) ==
  \/ LoopKeyOf(task[p].ctx) \notin DOMAIN loopStore
  \/ LoopKeyOf(task[p].ctx) \notin DOMAIN loopStore'
  \/ loopStore[LoopKeyOf(task[p].ctx)].lastOutcomeHash
        # loopStore'[LoopKeyOf(task[p].ctx)].lastOutcomeHash

--------------------------------------------------------------------------
(* C16: the loop-breaker configuration the controller runs with has its   *)
(* thresholds in order: warningThreshold <= quarantineThreshold <=        *)
(* stopThreshold.                                                         *)
C16_LoopThresholdsOrdered ==
  /\ cfg.loopBreaker.warningThreshold <= cfg.loopBreaker.quarantineThreshold
  /\ cfg.loopBreaker.quarantineThreshold <= cfg.loopBreaker.stopThreshold

--------------------------------------------------------------------------
(* C17: whenever the openUntil of a circuit key changes, the step is a    *)
(* recording whose sample list, the new sample included, holds at least   *)
(* minRequests samples of which at least failureRateThreshold have        *)
(* failed; and after any recording no sample kept for the key is older    *)
(* than windowMs, so an older one is never counted.                       *)
OpenUntilOf(store, k) ==
  IF k \in DOMAIN store THEN store[k].openUntil ELSE NoInt

SamplesOf(store, k) ==
  IF k \in DOMAIN store THEN store[k].samples ELSE <<>>

FailedIn(samples) ==
  Cardinality({i \in DOMAIN samples : samples[i].failed})

C17_CircuitOpensOnThreshold ==
  [][\A k \in DOMAIN circuitStore' :
       /\ OpenUntilOf(circuitStore', k) # OpenUntilOf(circuitStore, k) =>
            /\ Len(SamplesOf(circuitStore', k)) >= cfg.circuitBreaker.minRequests
            /\ FailedIn(SamplesOf(circuitStore', k)) * 100
                 >= cfg.circuitBreaker.failureRatePct * Len(SamplesOf(circuitStore', k))
            /\ OpenUntilOf(circuitStore', k) = now + cfg.circuitBreaker.cooldownMs
       /\ SamplesOf(circuitStore', k) # SamplesOf(circuitStore, k) =>
            \A i \in DOMAIN SamplesOf(circuitStore', k) :
              SamplesOf(circuitStore', k)[i].timestamp >= now - cfg.circuitBreaker.windowMs]_vars

(* a circuit that is open although a sample older than the window was *)
(* dropped and a success is among the samples counted                 *)
C17_Witness ==
  \E k \in DOMAIN circuitStore :
    /\ circuitStore[k].openUntil # NoInt
    /\ circuitStore[k].openUntil = now + cfg.circuitBreaker.cooldownMs
    /\ cfg.circuitBreaker.minRequests = 2
    /\ now >= 2
    /\ Len(circuitStore[k].samples) >= 2
    /\ FailedIn(circuitStore[k].samples) < Len(circuitStore[k].samples)

--------------------------------------------------------------------------
(* C18: an attempt that reaches the circuit gate while the openUntil of   *)
(* its circuit key is ahead of now raises NETWORK_ERROR "... (circuit     *)
(* breaker open)" without invoking the executor and without touching the  *)
(* circuit store; an attempt that reaches it when openUntil is unset or   *)
(* has passed is admitted and, unless the caller has cancelled, invokes    *)
(* the executor.                                                          *)
CircuitOpenFor(p) ==
  /\ cfg.circuitBreaker.enabled
  /\ OpenUntilOf(circuitStore, CircuitKeyOf(task[p].ctx)) # NoInt
  /\ OpenUntilOf(circuitStore, CircuitKeyOf(task[p].ctx)) > now

CircuitOpenMessage ==
  "Dependency temporarily unavailable (circuit breaker open)"

C18_CircuitOpenThenClosed ==
  [][\A p \in Procs :
       (task[p].pc = "circuit" /\ task'[p] # task[p]) =>
         /\ CircuitOpenFor(p) =>
              /\ task'[p].pc = "release"
              /\ task'[p].outcome.kind = "err"
              /\ task'[p].outcome.error.code = "NETWORK_ERROR"
              /\ task'[p].outcome.error.message = CircuitOpenMessage
              /\ task'[p].execs = task[p].execs
              /\ circuitStore' = circuitStore
         /\ (~CircuitOpenFor(p) /\ ~task[p].aborted) =>
              /\ task'[p].pc = "exec"
              /\ task'[p].execs = task[p].execs + 1]_vars

(* one run was turned away while the circuit was open, and a later run on *)
(* the same key is inside its executor after the cooldown has passed      *)
C18_Witness ==
  \E p, q \in Procs :
    /\ task[q].pc = "done"
    /\ task[q].outcome.kind = "err"
    /\ task[q].outcome.error.message = CircuitOpenMessage
    /\ task[q].execs = 0
    /\ task[p].pc = "exec"
    /\ task[p].seq > task[q].seq
    /\ CircuitKeyOf(task[p].ctx) = CircuitKeyOf(task[q].ctx)
    /\ OpenUntilOf(circuitStore, CircuitKeyOf(task[p].ctx)) # NoInt
    /\ OpenUntilOf(circuitStore, CircuitKeyOf(task[p].ctx)) <= now

--------------------------------------------------------------------------
(* C19: among the calls of one tenant to one tool, two calls have the     *)
(* same circuit key exactly when their destinations normalize to the same *)
(* host, a missing destination counting as the host "default"; and a step *)
(* changes the circuit state of no key but the key of the run that takes  *)
(* it, so a failure against one host leaves the circuit of another host   *)
(* as it was.                                                             *)
HostOf(context) ==
  IF normalize_destination(context.destination) = NoneStr THEN "default"
  ELSE Flat(normalize_destination(context.destination))

C19_CircuitKeyPerHost ==
  [][/\ \A c, d \in env.calls :
          (TenantKeyOf(c) = TenantKeyOf(d) /\ c.toolName = d.toolName) =>
            ((HostOf(c) = HostOf(d)) <=> (CircuitKeyOf(c) = CircuitKeyOf(d)))
     /\ \A c \in env.calls :
          c.destination = NoneStr =>
            CircuitKeyOf(c) = TenantKeyOf(c) \o ":" \o Flat(c.toolName) \o ":default"
     /\ \A k \in DOMAIN circuitStore' :
          (k \notin DOMAIN circuitStore \/ circuitStore'[k] # circuitStore[k]) =>
            \E p \in Procs : task'[p] # task[p] /\ CircuitKeyOf(task[p].ctx) = k]_vars

(* a failure at the bare host a (the one call made under the budget of   *)
(* run y) opened the circuit that turned away the call to a URL of host  *)
(* a, and no other circuit key exists                                    *)
C19_Witness ==
  \E p \in Procs :
    /\ task[p].pc = "done"
    /\ task[p].ctx.destination = <<"https://", "a", "/v1">>
    /\ task[p].seq = 2
    /\ task[p].outcome.kind = "err" /\ task[p].execs = 0
    /\ task[p].outcome.error.message = CircuitOpenMessage
    /\ budget_count(budgetStore, get_run_budget_key(cfg.tenantKey, <<"y">>)) = 1
    /\ DOMAIN circuitStore = {CircuitKeyOf(task[p].ctx)}
    /\ Len(circuitStore[CircuitKeyOf(task[p].ctx)].samples) = 1

--------------------------------------------------------------------------
(* C20: a step of a run made through the controller of one tenant leaves  *)
(* unchanged every store entry that a call made through the controller of *)
(* a different tenant reads: its budget counter, its loop state, its      *)
(* circuit state, its lock and its idempotency record.                    *)
C20_TenantsIsolated ==
  [][\A p \in Procs, c \in env.calls :
       (task'[p] # task[p] /\ TenantKeyOf(task'[p].ctx) # TenantKeyOf(c)) =>
         /\ store_get(budgetStore', BudgetKeyOf(c)) = store_get(budgetStore, BudgetKeyOf(c))
         /\ store_get(loopStore', LoopKeyOf(c)) = store_get(loopStore, LoopKeyOf(c))
         /\ store_get(circuitStore', CircuitKeyOf(c))
              = store_get(circuitStore, CircuitKeyOf(c))
         /\ HasResourceKey(c) =>
              store_get(lockStore', LockKeyOf(c)) = store_get(lockStore, LockKeyOf(c))
         /\ IdemKeyOf(c) # NoKey =>
              store_get(idempotencyStore', IdemKeyOf(c))
                = store_get(idempotencyStore, IdemKeyOf(c))]_vars

--------------------------------------------------------------------------
(* C21: in mode dryRun the policy step never ends the run and never calls *)
(* the approval handler: when the applied rule is deny or                 *)
(* require_approval it emits the one event policy_dry_run, when it is     *)
(* allow or no rule matches it emits nothing, and in both cases the run   *)
(* goes on to the before-call verifier.                                   *)
AppliedAction(p) ==
  IF task'[p].rule = 0 THEN "allow" ELSE cfg.policy.rules[task'[p].rule].action

C21_DryRunNeverBlocks ==
  [][\A p \in Procs :
       (task[p].pc = "policy" /\ task'[p] # task[p] /\ cfg.policy.mode = "dryRun") =>
         /\ task'[p].pc = "before"
         /\ task'[p].outcome.kind = "none"
         /\ ~task'[p].asked
         /\ task'[p].events =
              task[p].events \o (IF AppliedAction(p) = "allow" THEN <<>>
                                 ELSE <<"policy_dry_run">>)]_vars

(* a call matched by a require_approval rule has returned its result in *)
(* dryRun mode with a handler configured that was not asked             *)
C21_Witness ==
  \E p \in Procs :
    /\ cfg.policy.mode = "dryRun"
    /\ cfg.policy.approvalHandler # {}
    /\ task[p].pc = "done"
    /\ task[p].rule > 0
    /\ cfg.policy.rules[task[p].rule].action = "require_approval"
    /\ task[p].outcome.kind = "ok"
    /\ task[p].execs = 1
    /\ ~task[p].asked
    /\ task[p].events = <<"policy_dry_run">>

--------------------------------------------------------------------------
(* C22: the rule the policy gate applies to a call is, among the rules    *)
(* that match it, the one that is greatest in the lexicographic order of  *)
(* (tool specificity, destination specificity, length of the longest      *)
(* matching action prefix, strictness), the earliest of them when several *)
(* are equal in all four; when no rule matches none is applied and the    *)
(* call is let through.                                                   *)
RankOf(p, i) ==
  get_tool_rule_match_rank(cfg.policy.rules[i], task[p].ctx, i)

LexAbove(a, b) ==
  \/ a.toolSpecificity > b.toolSpecificity
  \/ /\ a.toolSpecificity = b.toolSpecificity
     /\ \/ a.destinationSpecificity > b.destinationSpecificity
        \/ /\ a.destinationSpecificity = b.destinationSpecificity
           /\ \/ a.actionPrefixSpecificity > b.actionPrefixSpecificity
              \/ /\ a.actionPrefixSpecificity = b.actionPrefixSpecificity
                 /\ a.strictness > b.strictness

MatchingRules(p) ==
  {i \in DOMAIN cfg.policy.rules : RankOf(p, i).matched}

C22_HighestRankedRuleApplies ==
  \A p \in Procs :
    task[p].pc \notin {"idle", "policy"} =>
      IF MatchingRules(p) = {}
      THEN /\ task[p].rule = 0
           /\ task[p].events = <<>>
           /\ task[p].pc = "done" => task[p].outcome.kind = "ok"
      ELSE /\ task[p].rule \in MatchingRules(p)
           /\ \A j \in MatchingRules(p) \ {task[p].rule} :
                \/ LexAbove(RankOf(p, task[p].rule), RankOf(p, j))
                \/ (~LexAbove(RankOf(p, j), RankOf(p, task[p].rule)) /\ task[p].rule < j)
           /\ (cfg.policy.mode = "enforce" /\ task[p].pc = "done") =>
                (cfg.policy.rules[task[p].rule].action = "deny"
                   <=> (task[p].outcome.kind = "err" /\ task[p].execs = 0
                          /\ task[p].events = <<"policy_denied">>))

(* an allow rule with a destination and an action prefix is applied to a  *)
(* call although a deny rule for the same tool, stricter but without      *)
(* destination, also matches                                              *)
C22_Witness ==
  \E p \in Procs :
    /\ cfg.policy.mode = "enforce"
    /\ cfg.policy.rules = <<Rule("deny", {<<"t">>}, {}, {}),
                            Rule("allow", {<<"t">>}, {<<"*">>}, {<<"r">>})>>
    /\ MatchingRules(p) = {1, 2}
    /\ task[p].pc = "done"
    /\ task[p].rule = 2
    /\ task[p].outcome.kind = "ok"

(* what a step leaves to the caller and the stores: the run's position,  *)
(* its result or failure, the executor calls and the five stores          *)
CallerView(p) ==
  <<task[p].pc, task[p].outcome, task[p].execs, task[p].attempt, stores>>

FanoutStep(p) ==
  /\ task'[p] # task[p]
  /\ task'[p].events = task[p].events
  /\ task'[p].seq = task[p].seq
  /\ task'[p].fanned + Len(task[p].backlog) = task[p].fanned + Len(task'[p].backlog) + 1

(* C23: no exception of an onEvent callback, an event sink or the        *)
(* sink-failure hook reaches the caller: no exception leaves emit_event, *)
(* a sink's task changes neither the run's position, result, failure nor *)
(* a store, and a sink that raises has its exception handed to the       *)
(* sink-failure hook with the event and that sink's index; every sink    *)
(* task is run in the end                                                *)
C23_EmissionNeverFailsCaller ==
  /\ [](\A p \in Procs : ~task[p].escaped)
  /\ [][\A p \in Procs :
         FanoutStep(p) =>
           LET job == Head(pending_fanout(task[p]))
           IN /\ CallerView(p)' = CallerView(p)
              /\ task'[p].sinkFailures =
                   IF cfg.eventSinks[job.sinkIndex + 1] = "raises"
                        /\ cfg.onEventSinkFailure # "none"
                   THEN Append(task[p].sinkFailures, job)
                   ELSE task[p].sinkFailures]_vars
  /\ <>[](\A p \in Procs : pending_fanout(task[p]) = <<>>)

C23_Witness ==
  \E p \in Procs :
    /\ cfg.onEvent = "raises"
    /\ cfg.eventSinks = <<"returns", "raises">>
    /\ cfg.onEventSinkFailure = "raises"
    /\ task[p].pc = "done"
    /\ task[p].outcome.kind = "ok"
    /\ task[p].execs = 2
    /\ task[p].events = <<"retry">>
    /\ pending_fanout(task[p]) = <<>>
    /\ task[p].sinkFailures = <<[event |-> "retry", sinkIndex |-> 1]>>

SafetyStep(p) ==
  /\ cfg.exitCondition.enabled
  /\ cfg.verifiers.beforeCall = {}
  /\ task[p].pc = "before"
  /\ task'[p] # task[p]

RejectedWith(p, reason) ==
  /\ task'[p].pc = "done"
  /\ task'[p].execs = 0
  /\ task'[p].outcome.kind = "err"
  /\ task'[p].outcome.error.code = "INVALID_REQUEST"
  /\ task'[p].outcome.error.message = "Verifier rejected tool call: " \o reason

(* C24: with the exit condition enabled, for each run key no more than   *)
(* maxStepsPerRun calls pass the safety check before a terminal call has *)
(* come, the non-terminal call after them is rejected with 'Exit         *)
(* condition not reached within N tool calls', and once a terminal call  *)
(* has come and blockAfterTerminal is set every call of that run key is  *)
(* rejected                                                              *)
C24_ExitCondition ==
  [][/\ \A k \in DOMAIN audit.passed' :
          audit.passed'[k].count <= cfg.exitCondition.maxStepsPerRun
     /\ \A p \in Procs :
          SafetyStep(p) =>
            LET g == passed_of(normalize_run_key(task[p].ctx.runKey))
                terminal == matches_terminal_action(task[p].ctx, cfg.exitCondition)
            IN /\ (g.terminalSeen /\ cfg.exitCondition.blockAfterTerminal)
                    => RejectedWith(p,
                         "Run already reached terminal action; further tool calls are blocked")
               /\ (~g.terminalSeen /\ ~terminal
                      /\ g.count = cfg.exitCondition.maxStepsPerRun)
                    => RejectedWith(p, "Exit condition not reached within "
                         \o ToString(cfg.exitCondition.maxStepsPerRun) \o " tool calls")]_vars

C24_Witness ==
  \E p \in Procs :
    /\ cfg.exitCondition.maxStepsPerRun = 2
    /\ cfg.exitCondition.blockAfterTerminal
    /\ passed_of(<<"x">>) = [count |-> 2, terminalSeen |-> FALSE]
    /\ task[p].pc = "done"
    /\ task[p].ctx.runKey = <<"x">>
    /\ task[p].seq = 3
    /\ task[p].outcome.kind = "err"
    /\ task[p].outcome.error.message =
         "Verifier rejected tool call: Exit condition not reached within 2 tool calls"

(* a call matches an allowlist entry: the tool pattern, and the action *)
(* prefixes and the destinations when the entry gives them             *)
MatchesEntry(context, entry) ==
  /\ match_pattern(context.toolName, entry.toolNamePattern)
  /\ entry.actionPrefixes # {} =>
       /\ context.action # NoneStr
       /\ \E q \in entry.actionPrefixes : starts_with(context.action, q)
  /\ entry.destinations # {} =>
       /\ normalize_destination(context.destination) # NoneStr
       /\ \E q \in entry.destinations :
            host_matches(q, normalize_destination(context.destination))

Allowlisted(context) ==
  \E i \in DOMAIN cfg.intentAllowlist : MatchesEntry(context, cfg.intentAllowlist[i])

(* C25: with an intent allowlist in enforce mode and no base rules, a    *)
(* call that matches an entry passes the policy gate without an event,   *)
(* and a call that matches none is denied with UNAUTHORIZED 403 and one  *)
(* policy_denied event                                                   *)
C25_AllowlistAdmitsListed ==
  \A p \in Procs :
    (cfg.intentAllowlist # <<>> /\ task[p].pc \notin {"idle", "policy"}) =>
      IF Allowlisted(task[p].ctx)
      THEN /\ task[p].events = <<>>
           /\ task[p].pc = "done" => task[p].outcome.kind = "ok"
      ELSE /\ task[p].pc = "done"
           /\ task[p].execs = 0
           /\ task[p].outcome.kind = "err"
           /\ task[p].outcome.error.code = "UNAUTHORIZED"
           /\ failure_status(task[p].outcome.error) = 403
           /\ task[p].events = <<"policy_denied">>

(* C26: two calls of one tool whose args are equal as data and differ by *)
(* the order of object keys, at any depth, have the same loop            *)
(* fingerprint, so that the loop breaker keeps one state for both        *)
C26_FingerprintIgnoresKeyOrder ==
  \A c, d \in env.calls :
    (c.toolName = d.toolName /\ DataEq(c.args, d.args)) =>
      /\ build_fingerprint(c.toolName, c.args) = build_fingerprint(d.toolName, d.args)
      /\ \A k \in DOMAIN loopStore : k = LoopKeyOf(c)

(* the positions of run() at a gate, and the place of each gate in the *)
(* order of run()                                                      *)
GatePcs ==
  {"policy", "before", "replay", "budget", "budget_set", "loop_pre", "acquire",
   "lockwait", "circuit"}

GateRank(pc) ==
  CASE pc = "policy" -> 1
    [] pc = "before" -> 2
    [] pc = "replay" -> 3
    [] pc \in {"budget", "budget_set"} -> 4
    [] pc = "loop_pre" -> 5
    [] pc \in {"acquire", "lockwait"} -> 6
    [] pc = "circuit" -> 7
    [] OTHER -> 8

GateStep(p) ==
  task[p].pc \in GatePcs /\ task'[p] # task[p]

GateRejects(p) ==
  GateStep(p) /\ task[p].outcome.kind # "err" /\ task'[p].outcome.kind = "err"

(* a step at a gate leaves the state of every later gate alone and goes *)
(* on to a later position                                               *)
LaterGatesUntouched(p) ==
  /\ GateRank(task[p].pc) < 4 => budgetStore' = budgetStore
  /\ GateRank(task[p].pc) < 5 => loopStore' = loopStore
  /\ GateRank(task[p].pc) < 6 => lockStore' = lockStore
  /\ GateRank(task[p].pc) < 7 => circuitStore' = circuitStore
  /\ GateRank(task'[p].pc) >= GateRank(task[p].pc)

RecordsLoopOutcome(p) ==
  /\ task[p].pc \in {"on_success", "on_error", "loop_record"}
  /\ task'[p] # task[p]
  /\ loopStore' # loopStore
  /\ LoopKeyOf(task[p].ctx) \in DOMAIN loopStore'

(* C28: recording an outcome whose hash differs from lastOutcomeHash (or *)
(* the first outcome of a fingerprint) leaves streak 1 and evaluates the *)
(* thresholds with both timers cleared: the stored timers are unset or   *)
(* set anew from now, and the event of the threshold that streak 1       *)
(* reaches is emitted whatever the old timer was; recording an outcome   *)
(* with the same hash adds exactly 1 to the streak                       *)
C28_LoopStreakResets ==
  [][\A p \in Procs :
       RecordsLoopOutcome(p) =>
         LET key == LoopKeyOf(task[p].ctx)
             lb == cfg.loopBreaker
             new == loopStore'[key]
             same == key \in DOMAIN loopStore
                       /\ loopStore[key].lastOutcomeHash = new.lastOutcomeHash
         IN IF same
            THEN new.streak = loopStore[key].streak + 1
            ELSE /\ new.streak = 1
                 /\ new.stopUntil =
                      (IF 1 >= lb.stopThreshold THEN now + lb.stopCooldownMs ELSE NoInt)
                 /\ new.quarantineUntil =
                      (IF 1 < lb.stopThreshold /\ 1 >= lb.quarantineThreshold
                       THEN now + lb.quarantineMs ELSE NoInt)
                 /\ 1 >= lb.stopThreshold => EmittedIn(p, "loop_stop")
                 /\ (1 < lb.stopThreshold /\ 1 >= lb.quarantineThreshold)
                      => EmittedIn(p, "loop_quarantine")]_vars

(* two runs of one fingerprint that ended at the same time with different *)
(* results: each was quarantined at streak 1, the second while the timer  *)
(* set by the first was still running                                     *)
C28_Witness ==
  \E p, q \in Procs :
    /\ cfg.loopBreaker.enabled /\ cfg.loopBreaker.quarantineMs > 0
    /\ now = 0
    /\ task[p].pc = "done" /\ task[q].pc = "done"
    /\ task[p].outcome.kind = "ok" /\ task[q].outcome.kind = "ok"
    /\ task[p].outcome.data # task[q].outcome.data
    /\ LoopKeyOf(task[p].ctx) = LoopKeyOf(task[q].ctx)
    /\ task[p].events = <<"loop_quarantine">>
    /\ task[q].events = <<"loop_quarantine">>
    /\ loopStore[LoopKeyOf(task[p].ctx)].streak = 1

(* a run past the policy gate of an enforcing controller whose applied *)
(* rule is a require_approval rule                                      *)
NeedsApproval(p) ==
  /\ cfg.policy.mode = "enforce"
  /\ task[p].pc \notin {"idle", "policy"}
  /\ task[p].rule # 0
  /\ cfg.policy.rules[task[p].rule].action = "require_approval"

DeniedUnauthorized(p) ==
  /\ task[p].pc = "done"
  /\ task[p].execs = 0
  /\ task[p].outcome.kind = "err"
  /\ task[p].outcome.error.code = "UNAUTHORIZED"
  /\ failure_status(task[p].outcome.error) = 403

(* C29: in enforce mode a call decided by a require_approval rule emits  *)
(* policy_approval_required and then exactly one of policy_approved and  *)
(* policy_denied, with or without an approval handler; the executor runs *)
(* only after policy_approved, otherwise the run raises UNAUTHORIZED 403 *)
C29_ApprovalDecided ==
  \A p \in Procs :
    NeedsApproval(p) =>
      /\ task[p].events \in {<<"policy_approval_required", "policy_approved">>,
                              <<"policy_approval_required", "policy_denied">>}
      /\ task[p].events[2] # "policy_approved" => DeniedUnauthorized(p)
      /\ task[p].events[2] = "policy_approved" => ~DeniedUnauthorized(p)

(* C29 as the code has it: policy_approval_required comes first; with an *)
(* approval handler exactly one of policy_approved and policy_denied     *)
(* follows, without one nothing follows; the executor runs only after    *)
(* policy_approved, otherwise the run raises UNAUTHORIZED 403            *)
C29_ApprovalDecidedByHandler ==
  \A p \in Procs :
    NeedsApproval(p) =>
      IF cfg.policy.approvalHandler = {}
      THEN /\ task[p].events = <<"policy_approval_required">>
           /\ ~task[p].asked
           /\ DeniedUnauthorized(p)
      ELSE /\ task[p].asked
           /\ task[p].events \in {<<"policy_approval_required", "policy_approved">>,
                                   <<"policy_approval_required", "policy_denied">>}
           /\ task[p].events[2] # "policy_approved" => DeniedUnauthorized(p)
           /\ task[p].events[2] = "policy_approved" =>
                /\ ~DeniedUnauthorized(p)
                /\ task[p].pc = "done" => (task[p].outcome.kind = "ok" /\ task[p].execs = 1)

(* a call under a require_approval rule rejected for want of a handler: *)
(* one policy_approval_required event and no decision event             *)
C29_Witness ==
  \E p \in Procs :
    /\ NeedsApproval(p)
    /\ cfg.policy.approvalHandler = {}
    /\ DeniedUnauthorized(p)
    /\ task[p].events = <<"policy_approval_required">>
    /\ task[p].outcome.error.message
         = "Policy requires approval but no approvalHandler is configured"

(* the step of run() in which the after-success verifier rejects the *)
(* result that the executor returned                                 *)
SuccessRejected(p) ==
  /\ task[p].pc = "on_success"
  /\ task'[p].pc = "on_error"

(* the step of run() that handles the failure raised by the after-success *)
(* verifier                                                               *)
RejectionHandled(p) ==
  /\ task[p].pc = "on_error"
  /\ task[p].phase = "after_success"
  /\ task'[p] # task[p]

NoSuccessRecord(store, context) ==
  \A r \in {store_get(store, IdemKeyOf(context))} : r = <<>> \/ ~r[1].ok

(* C30: when the after-success verifier rejects a result, verifier_rejected *)
(* is emitted in phase after_success, the run raises INVALID_REQUEST        *)
(* without a retry event and without another executor invocation although   *)
(* a second attempt is allowed, and no success record is stored under the   *)
(* call's idempotency key                                                   *)
C30_RejectedResultNotStored ==
  /\ [][\A p \in Procs :
         /\ SuccessRejected(p) =>
              /\ task'[p].phase = "after_success"
              /\ task'[p].events = Append(task[p].events, "verifier_rejected")
              /\ task'[p].raw.code = "INVALID_REQUEST"
              /\ task'[p].execs = task[p].execs
              /\ NoSuccessRecord(idempotencyStore', task[p].ctx)
         /\ RejectionHandled(p) =>
              /\ task'[p].pc = "release"
              /\ task'[p].outcome.kind = "err"
              /\ task'[p].outcome.error.code = "INVALID_REQUEST"
              /\ task'[p].attempt = task[p].attempt
              /\ task'[p].execs = task[p].execs
              /\ \A i \in DOMAIN task'[p].events :
                   i > Len(task[p].events) => task'[p].events[i] # "retry"
              /\ NoSuccessRecord(idempotencyStore', task[p].ctx)]_vars
  /\ [](\A p \in Procs :
          (/\ task[p].pc = "done"
           /\ cfg.verifiers.afterError = {}
           /\ \E i \in DOMAIN task[p].events : task[p].events[i] = "verifier_rejected") =>
            /\ task[p].outcome.kind = "err"
            /\ task[p].outcome.error.code = "INVALID_REQUEST")

(* a run that ended with the after-success verifier's rejection on its *)
(* first attempt of two: one executor invocation, one verifier_rejected *)
(* event, the failure stored as an error record                         *)
C30_Witness ==
  \E p \in Procs :
    /\ task[p].pc = "done"
    /\ cfg.retry.maxAttempts = 2
    /\ cfg.verifiers.afterError = {}
    /\ task[p].execs = 1
    /\ task[p].events = <<"verifier_rejected">>
    /\ task[p].outcome.kind = "err"
    /\ task[p].outcome.error.message = "Verifier rejected tool result"
    /\ store_get(idempotencyStore, IdemKeyOf(task[p].ctx)) # <<>>
    /\ ~store_get(idempotencyStore, IdemKeyOf(task[p].ctx))[1].ok

NoRunInProgress ==
  \A p \in Procs : task[p].pc \in {"idle", "done"}

(* C31: whenever every run has completed, the loop store holds at most *)
(* maxFingerprints keys of the tenant                                  *)
C31_LoopKeysBounded ==
  NoRunInProgress => Cardinality(store_keys(loopStore)) <= cfg.loopBreaker.maxFingerprints

(* the step in which the wait of acquire_resource_lock ends for run p *)
WaitEnds(p) ==
  /\ task[p].pc = "lockwait"
  /\ task'[p].pc # "lockwait"

(* another run on the lock key of p is inside its executor *)
HolderExecuting(p) ==
  \E q \in Procs \ {p} :
    /\ task[q].pc = "exec" /\ task[q].fnDone = <<>>
    /\ HasResourceKey(task[q].ctx)
    /\ LockKeyOf(task[q].ctx) = LockKeyOf(task[p].ctx)

EmittedTimes(t, type) ==
  Cardinality({i \in DOMAIN t.events : t.events[i] = type})

(* C32: a run that waits for a held lock has emitted concurrency_wait   *)
(* once, and, unless its caller aborts, its wait ends in one of two     *)
(* ways: it acquires the lock when no other run on the key is inside    *)
(* its executor, or, waitTimeoutMs after the wait began, it emits       *)
(* concurrency_rejected once and raises INVALID_REQUEST 'lock wait      *)
(* timeout' without having invoked its executor                         *)
C32_WaitAcquiresOrTimesOut ==
  [][\A p \in Procs :
       (WaitEnds(p) /\ ~task[p].aborted) =>
         /\ EmittedTimes(task[p], "concurrency_wait") = 1
         /\ \/ /\ task'[p].pc = "circuit"
               /\ task'[p].lockRef = [key |-> LockKeyOf(task[p].ctx), owner |-> task[p].owner]
               /\ task'[p].events = task[p].events
               /\ ~HolderExecuting(p)
            \/ /\ task'[p].pc = "done"
               /\ now - task[p].startedAt >= cfg.concurrency.waitTimeoutMs
               /\ task'[p].events = Append(task[p].events, "concurrency_rejected")
               /\ EmittedTimes(task'[p], "concurrency_rejected") = 1
               /\ task'[p].outcome.kind = "err"
               /\ task'[p].outcome.error.code = "INVALID_REQUEST"
               /\ task'[p].outcome.error.message = "Concurrency lock wait timeout"
               /\ task'[p].execs = 0]_vars

(* C33: with an intent allowlist in enforce mode in front of the rules of *)
(* a base policy, a call that matches no allowlist entry does not pass    *)
(* the policy gate: its run ends there with UNAUTHORIZED and its executor *)
(* is never invoked                                                       *)
C33_UnlistedDeniedDespiteBaseRules ==
  \A p \in Procs :
    (/\ cfg.intentAllowlist # <<>>
     /\ task[p].pc \notin {"idle", "policy"}
     /\ ~Allowlisted(task[p].ctx)) =>
      /\ task[p].pc = "done"
      /\ task[p].execs = 0
      /\ task[p].outcome.kind = "err"
      /\ task[p].outcome.error.code = "UNAUTHORIZED"

(* the step of run p in which the budget gate admits the run *)
BudgetAdmits(p) ==
  /\ task[p].pc = "budget_set"
  /\ task'[p].pc # "done"

(* C34: the budget counter of a run key changes only when the budget gate *)
(* admits a run of that key, and then by exactly one: the gate's step     *)
(* leaves the stored count one above what it was, and no other step of a  *)
(* run (a retry, the loop, lock or circuit gate, the executor's failure)  *)
(* changes any counter                                                    *)
C34_BudgetOncePerRun ==
  [][\A p \in Procs :
       task'[p] # task[p] =>
         IF BudgetAdmits(p)
         THEN /\ budget_count(budgetStore', BudgetKeyOf(task[p].ctx))
                   = budget_count(budgetStore, BudgetKeyOf(task[p].ctx)) + 1
              /\ \A k \in DOMAIN budgetStore \ {BudgetKeyOf(task[p].ctx)} :
                   k \in DOMAIN budgetStore' /\ budgetStore'[k] = budgetStore[k]
         ELSE budgetStore' = budgetStore]_vars

(* run p has returned the result of its own executor *)
ExecutedSuccessfully(p) ==
  /\ task[p].pc = "done"
  /\ task[p].outcome.kind = "ok"
  /\ ~task[p].replayed
  /\ task[p].execs > 0

(* C35: of the runs that share an idempotency state key at most one has *)
(* returned the result of its own executor, and no step replaces a      *)
(* success record in the idempotency store by an error record           *)
C35_OneSuccessPerKey ==
  /\ [](\A p, q \in Procs :
          (/\ p # q
           /\ ExecutedSuccessfully(p) /\ ExecutedSuccessfully(q)
           /\ IdemKeyOf(task[p].ctx) # NoKey)
          => IdemKeyOf(task[p].ctx) # IdemKeyOf(task[q].ctx))
  /\ [][\A k \in DOMAIN idempotencyStore :
          (idempotencyStore[k].ok /\ k \in DOMAIN idempotencyStore')
          => idempotencyStore'[k].ok]_vars

(* the step in which the exit check of safety_before_call ends for the *)
(* call of run p without finding the run already terminal              *)
ExitCheckCounts(p) ==
  /\ cfg.exitCondition.enabled
  /\ \/ task[p].pc = "before_set"
     \/ task[p].pc = "before" /\ task'[p].pc # "before_set"
  /\ task'[p] # task[p]
  /\ ~(/\ task'[p].pc = "done"
       /\ task'[p].outcome.error.message =
            "Verifier rejected tool call: "
              \o "Run already reached terminal action; further tool calls are blocked")

(* C36: the exit state of a run key is written at before-call time: a   *)
(* call whose exit check does not find the run already terminal leaves  *)
(* the stored step counter one higher, whether the check then lets it   *)
(* pass or not, a call matching a terminal action leaves the run marked *)
(* terminal, and no step ever deletes an exit state or turns its        *)
(* terminalReached from true to false                                   *)
C36_ExitStateWrittenBeforeCall ==
  [][/\ \A k \in DOMAIN exitStore :
          /\ k \in DOMAIN exitStore'
          /\ exitStore[k].terminalReached => exitStore'[k].terminalReached
     /\ \A p \in Procs :
          ExitCheckCounts(p) =>
            /\ ExitKeyOf(task[p].ctx) \in DOMAIN exitStore'
            /\ exitStore'[ExitKeyOf(task[p].ctx)].steps
                 = get_exit_state(exitStore, ExitKeyOf(task[p].ctx)).steps + 1
            /\ matches_terminal_action(task[p].ctx, cfg.exitCondition)
                 => exitStore'[ExitKeyOf(task[p].ctx)].terminalReached]_vars

(* ---- C37 ---- *)

(* the step in which an attempt's executor is started *)
ExecutorStarts(p) ==
  task[p].pc = "circuit" /\ task'[p].pc = "exec"

(* the step in which the run releases its resource lock and returns *)
RunReturns(p) ==
  task[p].pc # "done" /\ task'[p].pc = "done"

(* C37: an executor invocation that ended in "aborted" (timeout or caller *)
(* abort) is no longer running when the next attempt's executor starts   *)
(* and when the run releases its lock and returns; two executor          *)
(* invocations of one run never overlap                                  *)
C37_CancelledExecutorGone ==
  [][\A p \in Procs :
       /\ ExecutorStarts(p) => task[p].cancelled = 0
       /\ RunReturns(p) => task[p].cancelled = 0]_vars

(* the overlap itself: the second attempt's executor is running while the *)
(* first attempt's cancelled executor has not ended                       *)
C37_Overlap ==
  \E p \in Procs :
    task[p].pc = "exec" /\ task[p].fnDone = <<>> /\ task[p].cancelled > 0

(* another run's executor is running under the resource lock that the     *)
(* returned run released while its cancelled executor has not ended       *)
C37_ReleasedWhileRunning ==
  \E p, q \in Procs :
    /\ p # q
    /\ task[p].pc = "done" /\ task[p].cancelled > 0
    /\ task[q].pc = "exec"
    /\ task[p].lockRef # NoLock /\ task[q].lockRef # NoLock
    /\ task[p].lockRef.key = task[q].lockRef.key

(* ---- C38 ---- *)

CircuitOpenFailure ==
  <<"Dependency temporarily unavailable (circuit breaker open)", "NETWORK_ERROR">>

(* the circuit record under the call's key is open at this moment *)
CircuitOpenAt(p) ==
  /\ cfg.circuitBreaker.enabled
  /\ CircuitKeyOf(task[p].ctx) \in DOMAIN circuitStore
  /\ circuitStore[CircuitKeyOf(task[p].ctx)].openUntil > now

(* p's run comes to the top of a retry pass of the attempt loop *)
RetryPass(p) ==
  task[p].pc = "circuit" /\ task[p].attempt >= 2 /\ task'[p] # task[p]

(* C38: the circuit is checked before every attempt: when the circuit of *)
(* the call's key is open as a retry attempt begins (opened by this run  *)
(* or by a concurrent one), the attempt raises NETWORK_ERROR "circuit    *)
(* breaker open" without invoking the executor, adds no circuit sample,  *)
(* records no loop outcome, and the run ends with that failure           *)
C38_CircuitCheckedPerAttempt ==
  [][\A p \in Procs :
       /\ (RetryPass(p) /\ CircuitOpenAt(p)) =>
            /\ task'[p].pc = "release"
            /\ task'[p].outcome.kind = "err"
            /\ <<task'[p].outcome.error.message, task'[p].outcome.error.code>>
                 = CircuitOpenFailure
            /\ task'[p].execs = task[p].execs
            /\ task'[p].events = task[p].events
            /\ circuitStore' = circuitStore
            /\ loopStore' = loopStore
            /\ idempotencyStore' = idempotencyStore
       /\ (task[p].pc = "release" /\ task'[p] # task[p]) =>
            /\ task'[p].pc = "done"
            /\ task'[p].outcome = task[p].outcome
            /\ task'[p].execs = task[p].execs
            /\ circuitStore' = circuitStore
            /\ loopStore' = loopStore]_vars

(* a retry attempt has just been rejected by a circuit that a concurrent *)
(* run's failure opened: this run has recorded one failure, the circuit  *)
(* holds two samples, and the executor has run once in this run          *)
C38_Witness ==
  \E p \in Procs :
    /\ task[p].pc = "release"
    /\ task[p].attempt = 2
    /\ task[p].execs = 1
    /\ task[p].outcome.kind = "err"
    /\ <<task[p].outcome.error.message, task[p].outcome.error.code>> = CircuitOpenFailure
    /\ "circuit_open" \notin {task[p].events[i] : i \in DOMAIN task[p].events}
    /\ CircuitOpenAt(p)
    /\ Len(circuitStore[CircuitKeyOf(task[p].ctx)].samples) = 2

(* ---- C39 ---- *)

StoreKeySets ==
  <<DOMAIN loopStore, DOMAIN circuitStore, DOMAIN budgetStore,
    DOMAIN lockStore, DOMAIN idempotencyStore>>

(* C39: within one tenant the state keys of the five kinds (loop, circuit, *)
(* budget, lock, idempotency) are pairwise distinct, whatever the tool     *)
(* names, destinations, run keys, resource keys and idempotency keys: no   *)
(* key is present in the stores of two kinds                               *)
C39_KeyKindsDistinct ==
  \A i, j \in 1..5 : i # j => StoreKeySets[i] \cap StoreKeySets[j] = {}

(* the keys of the five kinds as the key builders give them for the calls *)
(* of the scenario                                                         *)
C39_BuiltKeysDistinct ==
  \A c, d \in env.calls :
    LET keys(x) == <<LoopKeyOf(x), CircuitKeyOf(x), BudgetKeyOf(x), LockKeyOf(x),
                     IdemKeyOf(x)>>
    IN \A i, j \in 1..5 : i # j => keys(c)[i] # keys(d)[j]

(* ---- C40 ---- *)

(* the circuit record under key admits calls at time now_ms *)
CircuitClosed(store, key, now_ms) ==
  key \in DOMAIN store => store[key].openUntil <= now_ms

(* p's run records the success of an attempt *)
RecordsSuccess(p) ==
  task[p].pc = "on_success" /\ task'[p] # task[p]

(* C40: with a failure-rate threshold above 0, recording a successful   *)
(* attempt never moves the circuit of the call's key from closed to open *)
(* (never sets openUntil into the future), also when the success is the *)
(* first call admitted after a cooldown                                  *)
C40_SuccessNeverOpens ==
  [][\A p \in Procs :
       (/\ RecordsSuccess(p)
        /\ cfg.circuitBreaker.enabled
        /\ cfg.circuitBreaker.failureRatePct > 0
        /\ CircuitClosed(circuitStore, CircuitKeyOf(task[p].ctx), now))
       => CircuitClosed(circuitStore', CircuitKeyOf(task[p].ctx), now)]_vars

(* a run has ended with its executor's result and the circuit of its key *)
(* is open at that moment without any failure recorded after the success *)
C40_OpenAfterSuccess ==
  \E p \in Procs :
    /\ task[p].pc = "done"
    /\ task[p].outcome.kind = "ok"
    /\ ~task[p].replayed
    /\ CircuitKeyOf(task[p].ctx) \in DOMAIN circuitStore
    /\ circuitStore[CircuitKeyOf(task[p].ctx)].openUntil > now
    /\ LET samples == circuitStore[CircuitKeyOf(task[p].ctx)].samples
       IN samples # <<>> /\ ~samples[Len(samples)].failed

====
